---- MODULE Spec2Model ----
(***************************************************************************)
(* Model of the PrismLinux repository package manager (package_manager.go, *)
(* the channel-aware variant): source resolution, merge, orphan removal,   *)
(* download, repository database rebuild and JSON metadata generation of   *)
(* the sync command, and the clean and status commands.                    *)
(*                                                                         *)
(* Strings are sequences of tokens, so that HasSuffix, HasPrefix,          *)
(* TrimSpace, Split and filepath.Base are computed, not assumed.           *)
(***************************************************************************)
EXTENDS Naturals, Sequences, FiniteSets, TLC

VARIABLES
  testingMode,     \* Config.TestingMode
  hasToken,        \* Config.GitLabToken != ""  (pm.gitlabClient != nil)
  projects,        \* PackagesConfig.GitLabProjects
  remoteURLs,      \* PackagesConfig.RemoteURLs
  configExists,    \* packages_config.yaml exists in the working directory
  existing,        \* the directories that exist
  tree,            \* per directory, its package files: name -> content
  dbs,             \* per directory, the four database names
  cwd,             \* the working directory of the process
  api,             \* <APIDir>/<channel>.json, per channel
  pc,              \* position of the sync invocation
  gitlabPackages,  \* syncPackages: result of fetchGitLabPackages
  remotePackages,  \* syncPackages: result of fetchRemoteURLPackages
  desired,         \* syncPackages: allRemotePackages (filename -> RemotePackage)
  listing,         \* removeOrphanedPackages: directory entries still to visit
  pending,         \* downloadNewPackages: map keys still to visit
  cur,             \* downloadFile: the key whose body is being streamed
  failedStep,      \* the step whose error syncPackages returned
  runNo,           \* number of invocations started
  kills,           \* number of invocations terminated by the operator
  faults,          \* number of local I/O faults injected
  hist,            \* bookkeeping about the runs (not program state)
  other,           \* the invocation of a second process, while it does not run
  pacmanOutput,    \* extractPackageInfo: the lines pacman -Qip has printed
  info,            \* extractPackageInfo: the PackageInfo it returns
  configEmpty      \* os.WriteFile has created packages_config.yaml and has
                   \* not yet written its content

vars == <<testingMode, hasToken, projects, remoteURLs, configExists, existing,
          tree, dbs, cwd, api, pc,
          gitlabPackages, remotePackages, desired, listing, pending, cur,
          failedStep, runNo, kills, faults, hist, other, pacmanOutput, info,
          configEmpty>>

\* what a sync, clean or status invocation of a lone process leaves alone
aux == <<other, pacmanOutput, info, configEmpty>>

----------------------------------------------------------------------------
(* Bounds *)

MaxProjects == 2
MaxRuns == 2
MaxKills == 1
MaxFaults == 1
MaxURLs == 2

----------------------------------------------------------------------------
(* Strings *)

PkgSuffix == ".pkg.tar.zst"

Channels == {"stable", "testing"}

\* strings.HasSuffix(s, ".pkg.tar.zst")
HasPkgSuffix(s) == Len(s) > 0 /\ s[Len(s)] = PkgSuffix

\* strings.HasPrefix(s, "https")
HasHttpsPrefix(s) == Len(s) > 0 /\ s[1] = "https:"

RECURSIVE TrimLeft(_)
TrimLeft(s) == IF Len(s) > 0 /\ s[1] = " " THEN TrimLeft(Tail(s)) ELSE s

RECURSIVE TrimRight(_)
TrimRight(s) ==
  IF Len(s) > 0 /\ s[Len(s)] = " " THEN TrimRight(SubSeq(s, 1, Len(s) - 1)) ELSE s

\* strings.TrimSpace
TrimSpace(s) == TrimRight(TrimLeft(s))

\* strings.Split(s, "?")[0]
RECURSIVE BeforeQuery(_)
BeforeQuery(s) ==
  IF Len(s) = 0 \/ s[1] = "?" THEN <<>> ELSE <<s[1]>> \o BeforeQuery(Tail(s))

RECURSIVE StripSlashes(_)
StripSlashes(s) ==
  IF Len(s) > 0 /\ s[Len(s)] = "/" THEN StripSlashes(SubSeq(s, 1, Len(s) - 1)) ELSE s

RECURSIVE LastElement(_)
LastElement(s) ==
  IF Len(s) = 0 \/ s[Len(s)] = "/" THEN <<>>
  ELSE LastElement(SubSeq(s, 1, Len(s) - 1)) \o <<s[Len(s)]>>

\* filepath.Base
Base(s) ==
  IF Len(s) = 0 THEN <<".">>
  ELSE IF Len(StripSlashes(s)) = 0 THEN <<"/">>
  ELSE LastElement(StripSlashes(s))

----------------------------------------------------------------------------
(* The remote world: the forge's releases and the HTTP servers. It is the  *)
(* same in every run of a behaviour (unchanged remote state).              *)

Url(host, path) == <<"https:", "/", "/", host, "/">> \o path

Asset(n, u) == [name |-> n, url |-> u]

FileA == <<"a", PkgSuffix>>
FileB == <<"b", PkgSuffix>>
FileZ == <<"z", PkgSuffix>>

ProjectIds == {"p0", "p1", "p2", "pe"}

\* gitlab.ListOptions{PerPage: 10}
PerPage == 10

ReleaseTags == <<"r1", "r2", "r3", "r4", "r5", "r6", "r7", "r8", "r9", "r10", "r11">>

Release(t, as) == [created |-> t, assets |-> as]

\* The releases of a project in the order the forge lists them (by release
\* date, newest first), each with its creation time and its Assets.Links.
\* The release date of a release can be set when it is created, so the order
\* of p3 and p11 is not the order of creation: the release created last is
\* listed last.
ForgeReleases(id) ==
  CASE id = "p1" ->
         <<Release(1, <<Asset(FileB, Url("flaky", <<"p1v1", "/">> \o FileB))>>)>>
    [] id = "p2" ->
         <<Release(2, <<Asset(FileA, Url("g", <<"p2v2", "/">> \o FileA)),
                        Asset(FileB, Url("dead", <<"p2v2", "/">> \o FileB)),
                        Asset(<<"a", ".sig">>, Url("g", <<"p2v2", "/", "a", ".sig">>)),
                        Asset(<<"c", PkgSuffix>>,
                              <<"http:", "/", "/", "g", "/", "c", PkgSuffix>>)>>),
           Release(1, <<Asset(FileA, Url("g", <<"p2v1", "/">> \o FileA))>>)>>
    [] id = "p3" ->
         <<Release(1, <<Asset(FileA, Url("g", <<"p3v1", "/">> \o FileA))>>),
           Release(2, <<Asset(FileA, Url("g", <<"p3v2", "/">> \o FileA)),
                        Asset(FileB, Url("g", <<"p3v2", "/">> \o FileB))>>)>>
    [] id = "pt" ->
         <<Release(1, <<Asset(<<"..", "/">> \o FileB,
                              Url("g", <<"ptv1", "/">> \o FileB)),
                        Asset(FileA, Url("g", <<"ptv1", "/">> \o FileA)),
                        Asset(FileB, Url("dead", <<"ptv1", "/">> \o FileB))>>)>>
    [] id = "p11" ->
         [i \in 1..(PerPage + 1) |->
            Release(IF i = PerPage + 1 THEN PerPage + 2 ELSE PerPage + 1 - i,
                    <<Asset(FileA, Url("g", <<"p11", "/", ReleaseTags[i], "/">> \o FileA))>>)]
    [] OTHER -> <<>>

\* one page of a listing
FirstPage(rs) == SubSeq(rs, 1, IF Len(rs) < PerPage THEN Len(rs) ELSE PerPage)

\* Releases.ListReleases(project.ID, listOptions): the first page of the
\* project's releases, as the forge lists them; each release is its
\* Assets.Links.
Releases(id) ==
  [i \in 1..Len(FirstPage(ForgeReleases(id))) |-> ForgeReleases(id)[i].assets]

\* Releases.ListReleases returns an error
ListFails(id) == id = "pe"

Host(u) == IF Len(u) >= 4 THEN u[4] ELSE ""

\* http.Get(url) and the streaming of its body: "ok", "status" (a response
\* other than 200), "geterr" (transport error before a response) or
\* "copyerr" (transport error while the body is streamed).
HttpOutcome(u) ==
  CASE Host(u) = "dead" -> "status"
    [] Host(u) = "down" -> "geterr"
    [] Host(u) = "flaky" -> "copyerr"
    [] Host(u) = "example.com" -> "status"
    [] OTHER -> "ok"

DirectURLs ==
  { Url("h", FileA),
    Url("h", FileB),
    Url("dead", FileA),
    Url("down", FileA),
    Url("h", FileA) \o <<" ", " ">>,
    <<" ">> \o Url("h", FileB),
    Url("h", <<"x", "?", "f", "=">> \o FileA),
    Url("h", FileA \o <<"?", "v">>) }

----------------------------------------------------------------------------
(* Source Resolver, Release Selector, Package Set Merger *)

RemotePackage(f, u, r) == [Filename |-> f, URL |-> u, Repository |-> r]

TargetRepo(testing) == IF testing THEN "testing" ELSE "stable"

\* fetchGitLabPackages, the loop over a release's asset links
RECURSIVE AssetPackages(_, _)
AssetPackages(assets, repository) ==
  IF Len(assets) = 0 THEN <<>>
  ELSE (IF HasPkgSuffix(assets[1].name) /\ HasHttpsPrefix(assets[1].url)
        THEN <<RemotePackage(assets[1].name, assets[1].url, repository)>>
        ELSE <<>>)
       \o AssetPackages(Tail(assets), repository)

\* fetchGitLabPackages, the body of the loop over the enabled projects
ProjectPackages(project, targetRepo) ==
  IF ListFails(project.ID) THEN <<>>
  ELSE IF Len(Releases(project.ID)) = 0 THEN <<>>
  ELSE IF project.Repository = targetRepo
       THEN AssetPackages(Releases(project.ID)[1], project.Repository)
       ELSE <<>>

\* fetchGitLabPackages: the projects Releases.ListReleases is called for
RECURSIVE ListedProjects(_)
ListedProjects(ps) ==
  IF Len(ps) = 0 THEN <<>>
  ELSE (IF ps[1].Enabled THEN <<ps[1].ID>> ELSE <<>>) \o ListedProjects(Tail(ps))

QueriedProjects(client, ps) == IF ~client THEN <<>> ELSE ListedProjects(ps)

\* a loop that ends at the first project whose listing fails or is empty
RECURSIVE EnabledProjectPackagesStop(_, _)
EnabledProjectPackagesStop(ps, targetRepo) ==
  IF Len(ps) = 0 THEN <<>>
  ELSE IF ps[1].Enabled
          /\ (ListFails(ps[1].ID) \/ Len(Releases(ps[1].ID)) = 0)
       THEN <<>>
       ELSE (IF ps[1].Enabled THEN ProjectPackages(ps[1], targetRepo) ELSE <<>>)
            \o EnabledProjectPackagesStop(Tail(ps), targetRepo)

\* fetchGitLabPackages: the loop over the projects
RECURSIVE EnabledProjectPackages(_, _)
EnabledProjectPackages(ps, targetRepo) ==
  IF Len(ps) = 0 THEN <<>>
  ELSE (IF ps[1].Enabled THEN ProjectPackages(ps[1], targetRepo) ELSE <<>>)
       \o EnabledProjectPackages(Tail(ps), targetRepo)

\* fetchGitLabPackages
FetchGitLabPackages(client, ps, targetRepo) ==
  IF ~client THEN <<>> ELSE EnabledProjectPackages(ps, targetRepo)

\* a resolver that tests and keeps the URL as it is written
RECURSIVE FetchRemoteURLPackagesRaw(_, _)
FetchRemoteURLPackagesRaw(us, targetRepo) ==
  IF Len(us) = 0 THEN <<>>
  ELSE (IF us[1].Enabled /\ us[1].Repository = targetRepo
           /\ HasPkgSuffix(us[1].URL)
        THEN <<RemotePackage(Base(BeforeQuery(us[1].URL)), us[1].URL,
                             us[1].Repository)>>
        ELSE <<>>)
       \o FetchRemoteURLPackagesRaw(Tail(us), targetRepo)

\* fetchRemoteURLPackages
RECURSIVE FetchRemoteURLPackages(_, _)
FetchRemoteURLPackages(us, targetRepo) ==
  IF Len(us) = 0 THEN <<>>
  ELSE (IF us[1].Enabled /\ us[1].Repository = targetRepo
           /\ HasPkgSuffix(TrimSpace(us[1].URL))
           /\ Len(Base(BeforeQuery(TrimSpace(us[1].URL)))) > 0
        THEN <<RemotePackage(Base(BeforeQuery(TrimSpace(us[1].URL))),
                             TrimSpace(us[1].URL), us[1].Repository)>>
        ELSE <<>>)
       \o FetchRemoteURLPackages(Tail(us), targetRepo)

\* allRemotePackages[pkg.Filename] = pkg, for the packages of a list in order
RECURSIVE Insert(_, _)
Insert(m, pkgs) ==
  IF Len(pkgs) = 0 THEN m
  ELSE Insert([f \in (DOMAIN m) \cup {pkgs[1].Filename} |->
                 IF f = pkgs[1].Filename THEN pkgs[1] ELSE m[f]],
              Tail(pkgs))

EmptyMap == [f \in {} |-> 0]

\* the reverse insertion order: direct URLs first, then forge packages
MergeDirectFirst(gl, rp) == Insert(Insert(EmptyMap, rp), gl)

\* syncPackages: the merged map, forge packages first, then direct URLs
MergePackages(gl, rp) == Insert(Insert(EmptyMap, gl), rp)

----------------------------------------------------------------------------
(* Directories *)

\* getStringFlag(cmd, "arch", "x86_64")
Architecture == <<"x86_64">>

\* filepath.Join
Join(a, b) == a \o <<"/">> \o b

\* a configuration that uses one package directory for both channels
RepoArchDirShared(testing) == Architecture

\* NewConfig: Config.RepoArchDir with the default flags
RepoArchDir(testing) ==
  IF testing THEN Join(<<"testing">>, Architecture) ELSE Architecture

\* NewConfig: Config.APIDir with the default flags
APIDir == <<"api">>

\* the directory the program is started in
LaunchDir == <<".">>

\* the package directories of the two channels with the default flags
ChannelDirs == {Architecture, Join(<<"testing">>, Architecture)}

\* the directories that hold a package directory
ParentDirs == {LaunchDir, <<"testing">>}

\* filepath.Dir of a relative directory
Parent(d) == IF Len(d) >= 3 THEN SubSeq(d, 1, Len(d) - 2) ELSE LaunchDir

\* the name begins with the element ".."
Climbs(name) == Len(name) >= 3 /\ name[1] = ".." /\ name[2] = "/"

\* filepath.Join(RepoArchDir, filename), cleaned: the directory and the file
\* name of the result; each leading ".." of the name drops the last element
\* of the directory
RECURSIVE LocalPath(_, _)
LocalPath(d, name) ==
  IF Climbs(name) /\ d # LaunchDir
  THEN LocalPath(Parent(d), SubSeq(name, 3, Len(name)))
  ELSE [dir |-> d, name |-> name]

\* the package directory of the invocation, its files and database names
Dir == RepoArchDir(testingMode)
files == tree[Dir]
db == dbs[Dir]

----------------------------------------------------------------------------
(* The channel directory, the database files and the JSON metadata *)

\* A file's content: where it was downloaded from, and whether it is a whole
\* package archive (a truncated or corrupt file is not).
Full(u) == [src |-> u, whole |-> TRUE]
Partial(u) == [src |-> u, whole |-> FALSE]
OldFile == [src |-> <<"old">>, whole |-> TRUE]
CorruptFile == [src |-> <<"old">>, whole |-> FALSE]

Remove(m, f) == [g \in (DOMAIN m) \ {f} |-> m[g]]
Put(m, f, c) == [g \in (DOMAIN m) \cup {f} |-> IF g = f THEN c ELSE m[g]]

\* byte order of the tokens, for the sorted listing of os.ReadDir
TokenOrder == <<" ", ".", "..", PkgSuffix, ".sig", "/", "=", "?", "a", "b", "c",
                "f", "package", "v", "x", "z">>

Rank(t) == IF \E i \in 1..Len(TokenOrder) : TokenOrder[i] = t
           THEN CHOOSE i \in 1..Len(TokenOrder) : TokenOrder[i] = t
           ELSE Len(TokenOrder) + 1

RECURSIVE NameLess(_, _)
NameLess(s, t) ==
  IF Len(t) = 0 THEN FALSE
  ELSE IF Len(s) = 0 THEN TRUE
  ELSE IF s[1] # t[1] THEN Rank(s[1]) < Rank(t[1])
  ELSE NameLess(Tail(s), Tail(t))

\* os.ReadDir: the entries of a directory, sorted by filename
RECURSIVE ReadDir(_)
ReadDir(S) ==
  IF S = {} THEN <<>>
  ELSE LET m == CHOOSE x \in S : \A y \in S \ {x} : NameLess(x, y)
       IN <<m>> \o ReadDir(S \ {m})

\* filepath.Glob("*.pkg.tar.zst") in the channel directory
Glob(fs) == {f \in DOMAIN fs : HasPkgSuffix(f)}

Absent == [kind |-> "absent", pkgs |-> EmptyMap, target |-> ""]
ZeroLength == [kind |-> "file", pkgs |-> EmptyMap, target |-> ""]
Index(fs) == [kind |-> "index", pkgs |-> [f \in Glob(fs) |-> fs[f]], target |-> ""]
Symlink(t) == [kind |-> "symlink", pkgs |-> EmptyMap, target |-> t]

DbNames == {"db", "db.tar.gz", "files", "files.tar.gz"}

NoDb == [n \in DbNames |-> Absent]

\* a builder that leaves the previous database files in place
RemoveOldDbKeeps(d) == d

\* a builder that removes the previous archives but not the two links
RemoveOldDbKeepsLinks(d) ==
  [n \in DbNames |-> IF n \in {"db", "files"} THEN d[n] ELSE Absent]

\* updateRepoDatabase: os.Remove of the four database names
RemoveOldDb(d) == [n \in DbNames |-> Absent]

\* repo-add: fails when an argument is not a readable package archive
RepoAddOk(fs) == \A f \in Glob(fs) : fs[f].whole

\* an archive repo-add has updated: the entries of the archive it found,
\* with the entries of the packages on its command line added or replaced
AddEntries(a, fs) ==
  LET old == IF a.kind = "index" THEN a.pkgs ELSE EmptyMap
  IN [kind |-> "index",
      pkgs |-> [f \in (DOMAIN old) \cup Glob(fs) |->
                  IF f \in Glob(fs) THEN fs[f] ELSE old[f]],
      target |-> ""]

\* the archives repo-add leaves behind (it creates the two links itself)
RepoAdd(d, fs) ==
  [n \in DbNames |->
     CASE n = "db.tar.gz" -> AddEntries(d[n], fs)
       [] n = "files.tar.gz" -> AddEntries(d[n], fs)
       [] n = "db" -> Symlink("db.tar.gz")
       [] n = "files" -> Symlink("files.tar.gz")]

\* updateRepoDatabase: the two os.WriteFile calls of the empty repository
WritePlaceholders(d) ==
  [n \in DbNames |->
     CASE n = "db.tar.gz" -> ZeroLength
       [] n = "files.tar.gz" -> ZeroLength
       [] OTHER -> d[n]]

\* the two stable names
LinkNames == {"db", "files"}

\* updateRepoDatabase: os.Remove and os.Symlink of the two stable names;
\* os.Symlink fails for the names in bad, which os.Remove has removed
RefreshSymlinks(d, bad) ==
  [n \in DbNames |->
     CASE n \in bad -> Absent
       [] n = "db" -> Symlink("db.tar.gz")
       [] n = "files" -> Symlink("files.tar.gz")
       [] OTHER -> d[n]]

\* extractPackageInfo returns no error: pacman -Qip fails on a file that is
\* no package archive, and pacman -Qip or os.Stat fails for the names in bad
InspectOk(f, c, bad) == c.whole /\ f \notin bad

PackageInfo(f, c, repo) == [Filename |-> f, Source |-> c.src, Repository |-> repo]

\* a loop that ends at the first file whose inspection fails
RECURSIVE PackageListStop(_, _, _, _)
PackageListStop(entries, fs, repo, bad) ==
  IF Len(entries) = 0 THEN <<>>
  ELSE IF HasPkgSuffix(entries[1])
       THEN IF InspectOk(entries[1], fs[entries[1]], bad)
            THEN <<PackageInfo(entries[1], fs[entries[1]], repo)>>
                 \o PackageListStop(Tail(entries), fs, repo, bad)
            ELSE <<>>
       ELSE PackageListStop(Tail(entries), fs, repo, bad)

\* generatePackagesJSON: the loop over the directory entries
RECURSIVE PackageList(_, _, _, _)
PackageList(entries, fs, repo, bad) ==
  IF Len(entries) = 0 THEN <<>>
  ELSE (IF HasPkgSuffix(entries[1]) /\ InspectOk(entries[1], fs[entries[1]], bad)
        THEN <<PackageInfo(entries[1], fs[entries[1]], repo)>>
        ELSE <<>>)
       \o PackageList(Tail(entries), fs, repo, bad)

NoJson == [kind |-> "absent", items |-> <<>>]
JsonArray(items) == [kind |-> "array", items |-> items]
JsonNull == [kind |-> "null", items |-> <<>>]

\* json.MarshalIndent of packageList: a slice nothing was appended to is nil,
\* and a nil slice is encoded as null
MarshalIndent(list) == IF Len(list) = 0 THEN JsonNull ELSE JsonArray(list)

----------------------------------------------------------------------------
(* Initial states *)

GitLabProject(id, r, e) == [ID |-> id, Repository |-> r, Enabled |-> e]
RemoteURL(u, r, e) == [URL |-> u, Repository |-> r, Enabled |-> e]

ProjectEntries ==
  {GitLabProject(id, r, e) : id \in ProjectIds, r \in Channels, e \in BOOLEAN}

URLEntries == {RemoteURL(u, r, e) : u \in DirectURLs, r \in Channels, e \in BOOLEAN}

SeqsUpTo(S, n) == UNION {[1..k -> S] : k \in 0..n}

\* the configurations a sync run is followed through: at most one enabled
\* project and at most one enabled direct URL
SyncProjects == {<<>>} \cup {<<e>> : e \in {x \in ProjectEntries : x.Enabled}}
SyncURLs ==
  {<<>>} \cup {<<e>> : e \in {x \in URLEntries :
                     x.Enabled /\ x.URL \in {Url("h", FileA), Url("down", FileA),
                                             Url("h", <<"x", "?", "f", "=">> \o FileA)}}}

\* what the channel directory holds before the first run: FileA and FileB,
\* whole or corrupt, and FileZ, which no source provides
InitFiles ==
  LET ab == UNION {[S -> {OldFile, CorruptFile}] : S \in SUBSET {FileA, FileB}}
  IN ab \cup {Put(m, FileZ, OldFile) : m \in ab}

StaleDb ==
  [n \in DbNames |->
     CASE n = "db.tar.gz" -> [kind |-> "index", pkgs |-> (FileB :> OldFile), target |-> ""]
       [] n = "files.tar.gz" -> [kind |-> "index", pkgs |-> (FileB :> OldFile), target |-> ""]
       [] n = "db" -> Symlink("db.tar.gz")
       [] n = "files" -> Symlink("files.tar.gz")]

StaleJson(repo) == JsonArray(<<PackageInfo(FileB, OldFile, repo)>>)

NoRun == [valid |-> FALSE, outcome |-> "", files |-> EmptyMap, db |-> NoDb,
          api |-> [c \in Channels |-> NoJson]]

\* what an invocation can change outside the process
Outside ==
  [tree |-> tree, dbs |-> dbs, api |-> api, existing |-> existing,
   configExists |-> configExists]

InitHist(f, d, a) ==
  [init |-> [files |-> f, db |-> d, api |-> a],
   before |-> Outside,
   mode |-> "",
   noConfig |-> FALSE,
   stuck |-> {},
   startFiles |-> f,
   startDb |-> d,
   startApi |-> a,
   prev |-> NoRun,
   deleted |-> {},
   fetched |-> {},
   failedDl |-> {},
   repoAdd |-> <<>>,
   queried |-> <<>>,
   originalDir |-> LaunchDir,
   linkFailed |-> {},
   uninspected |-> {},
   log |-> <<>>]

\* what the package directory of the other channel holds
OtherFiles == Put(Put(EmptyMap, FileA, OldFile), FileZ, OldFile)

\* the directories before the first invocation: the package directory of the
\* invocations holds f and d, every directory exists
InitDisk(f, d) ==
  /\ tree = [x \in ChannelDirs \cup ParentDirs |->
               IF x = Dir THEN f
               ELSE IF x \in ChannelDirs THEN OtherFiles ELSE EmptyMap]
  /\ dbs = [x \in ChannelDirs |-> IF x = Dir THEN d ELSE StaleDb]
  /\ existing = ChannelDirs \cup {APIDir}
  /\ cwd = LaunchDir

\* no second process
NoProcess == [alive |-> FALSE]

\* extractPackageInfo has not been called
NoInfo == [called |-> FALSE]

InitLocals ==
  /\ other = NoProcess
  /\ configEmpty = FALSE
  /\ pacmanOutput = <<>>
  /\ info = NoInfo
  /\ pc = "idle"
  /\ gitlabPackages = <<>>
  /\ remotePackages = <<>>
  /\ desired = EmptyMap
  /\ listing = <<>>
  /\ pending = {}
  /\ cur = <<>>
  /\ failedStep = ""
  /\ runNo = 0
  /\ kills = 0
  /\ faults = 0

Init ==
  /\ testingMode \in BOOLEAN
  /\ hasToken = TRUE
  /\ projects \in SyncProjects
  /\ remoteURLs \in SyncURLs
  /\ configExists = TRUE
  /\ \E f \in InitFiles, stale \in BOOLEAN :
       /\ InitDisk(f, IF stale THEN StaleDb ELSE NoDb)
       /\ api = [c \in Channels |-> IF stale THEN StaleJson(c) ELSE NoJson]
  /\ hist = InitHist(files, db, api)
  /\ InitLocals

----------------------------------------------------------------------------
(* A sync invocation: runPackageManagement and syncPackages *)

\* no invocation is running: none was started yet, or the last one returned
\* (a sync run "done" or "failed", a clean run "cleaned" or "cleanfailed", a
\* status run "reported" or "reportfailed")
AtRest == pc \in {"idle", "done", "failed", "cleaned", "cleanfailed",
                  "reported", "reportfailed"}

Running == ~AtRest

LastRun ==
  IF pc \in {"done", "failed"}
  THEN [valid |-> TRUE, outcome |-> pc, files |-> files, db |-> db, api |-> api]
  ELSE NoRun

\* readPackagesConfig: the configuration written when the file is absent
TemplateProjects == <<GitLabProject("12345", "stable", TRUE)>>
TemplateURLs ==
  <<RemoteURL(Url("example.com", <<"package", PkgSuffix>>) \o <<" ", " ">>,
              "stable", TRUE)>>

\* readPackagesConfig: os.Stat has found the file, so it is read; a process
\* that found it absent is creating it and returns the template
ReadsFile == configExists /\ pc # "creating"

\* readPackagesConfig: the configuration it returns; a file that os.WriteFile
\* has created and not yet written is read as the empty configuration
ReadProjects ==
  IF ReadsFile THEN (IF configEmpty THEN <<>> ELSE projects)
  ELSE TemplateProjects
ReadURLs ==
  IF ReadsFile THEN (IF configEmpty THEN <<>> ELSE remoteURLs)
  ELSE TemplateURLs

\* createDirectories: os.MkdirAll of the package directory and the API
\* directory
CreateDirectories(ex, dir) == ex \cup {dir, APIDir}

\* runPackageManagement up to and including the merge of syncPackages
Start ==
  /\ UNCHANGED <<other, pacmanOutput, info>>
  /\ AtRest \/ pc = "creating"
  /\ runNo < MaxRuns
  /\ runNo' = runNo + 1
  /\ configExists' = TRUE
  /\ configEmpty' = (ReadsFile /\ configEmpty)
  /\ projects' = ReadProjects
  /\ remoteURLs' = ReadURLs
  /\ existing' = CreateDirectories(existing, Dir)
  /\ gitlabPackages' =
       FetchGitLabPackages(hasToken, projects', TargetRepo(testingMode))
  /\ remotePackages' = FetchRemoteURLPackages(remoteURLs', TargetRepo(testingMode))
  /\ desired' = MergePackages(gitlabPackages', remotePackages')
  /\ pc' = "orphans"
  /\ failedStep' = ""
  /\ listing' = <<>>
  /\ pending' = {}
  /\ cur' = <<>>
  /\ hist' = [hist EXCEPT !.startFiles = files, !.startDb = db,
                          !.startApi = api, !.prev = LastRun,
                          !.deleted = {}, !.fetched = {}, !.failedDl = {},
                          !.repoAdd = <<>>,
                          !.queried = QueriedProjects(hasToken, projects'),
                          !.before = Outside, !.mode = "sync",
                          !.noConfig = ~ReadsFile, !.stuck = {},
                          !.originalDir = cwd, !.linkFailed = {},
                          !.uninspected = {}, !.log = <<>>]
  /\ UNCHANGED <<testingMode, hasToken, cwd, tree, dbs, api, kills, faults>>

\* an error that is recorded but does not stop the run
FailContinues(step) ==
  /\ pc' = "download"
  /\ failedStep' = step

\* syncPackages: a step returned an error, which syncPackages returns
Fail(step) ==
  /\ pc' = "failed"
  /\ failedStep' = step

\* removeOrphanedPackages: os.ReadDir of the channel directory
ListDir ==
  /\ UNCHANGED aux
  /\ pc = "orphans"
  /\ \/ /\ listing' = ReadDir(DOMAIN files)
        /\ pc' = "removing"
        /\ UNCHANGED <<failedStep, faults>>
     \/ /\ faults < MaxFaults
        /\ faults' = faults + 1
        /\ Fail("orphans")
        /\ UNCHANGED listing
  /\ UNCHANGED <<testingMode, hasToken, projects, remoteURLs, configExists,
                 existing, cwd, tree, dbs, api,
                 gitlabPackages, remotePackages, desired, pending, cur, runNo,
                 kills, hist>>

\* an orphan test that finds no orphan
IsOrphanNever(f, d) == FALSE

\* an orphan test that spares nothing: every package file is removed
IsOrphanAlways(f, d) == HasPkgSuffix(f)

\* an orphan test with the membership test inverted
IsOrphanInverted(f, d) == HasPkgSuffix(f) /\ f \in DOMAIN d

\* removeOrphanedPackages: the test of one directory entry
IsOrphan(f, d) == HasPkgSuffix(f) /\ f \notin DOMAIN d

\* removeOrphanedPackages: one iteration of the loop over the entries
OrphanStep ==
  /\ UNCHANGED aux
  /\ pc = "removing"
  /\ Len(listing) > 0
  /\ LET f == Head(listing) IN
       IF IsOrphan(f, desired)
       THEN \/ /\ tree' = [tree EXCEPT ![Dir] = Remove(files, f)]
               /\ listing' = Tail(listing)
               /\ hist' = [hist EXCEPT !.deleted = @ \cup {f}]
               /\ UNCHANGED <<pc, failedStep, faults>>
            \/ /\ faults < MaxFaults
               /\ faults' = faults + 1
               /\ Fail("orphans")
               /\ UNCHANGED <<tree, listing, hist>>
       ELSE /\ listing' = Tail(listing)
            /\ UNCHANGED <<tree, pc, failedStep, faults, hist>>
  /\ UNCHANGED <<testingMode, hasToken, projects, remoteURLs, configExists,
                 existing, cwd, dbs, api,
                 gitlabPackages, remotePackages, desired, pending, cur, runNo,
                 kills>>

\* removeOrphanedPackages returns nil; downloadNewPackages begins
OrphansDone ==
  /\ UNCHANGED aux
  /\ pc = "removing"
  /\ Len(listing) = 0
  /\ pc' = "download"
  /\ pending' = DOMAIN desired
  /\ UNCHANGED <<testingMode, hasToken, projects, remoteURLs, configExists,
                 existing, cwd, tree, dbs, api,
                 gitlabPackages, remotePackages, desired, listing, cur,
                 failedStep, runNo, kills, faults, hist>>

\* a download test that ignores what is on disk
MissingAlways(f, fs) == TRUE

\* downloadNewPackages: os.Stat(localPath) reports that the file does not exist
Missing(f, fs) == f \notin DOMAIN fs

\* downloadNewPackages: localPath of an entry of the desired set
At(k) == LocalPath(Dir, k)

\* downloadNewPackages: an entry whose file exists is passed over
DownloadSkip ==
  /\ UNCHANGED aux
  /\ pc = "download"
  /\ \E k \in pending :
       /\ ~Missing(At(k).name, tree[At(k).dir])
       /\ pending' = pending \ {k}
  /\ UNCHANGED <<testingMode, hasToken, projects, remoteURLs, configExists,
                 existing, cwd, tree, dbs, api,
                 pc, gitlabPackages, remotePackages, desired, listing, cur,
                 failedStep, runNo, kills, faults, hist>>

\* downloadFile returns before os.Create: http.Get failed or the status is
\* not 200; downloadNewPackages removes localPath and continues
DownloadRefused ==
  /\ UNCHANGED aux
  /\ pc = "download"
  /\ \E k \in pending :
       /\ Missing(At(k).name, tree[At(k).dir])
       /\ HttpOutcome(desired[k].URL) \in {"status", "geterr"}
       /\ pending' = pending \ {k}
       /\ tree' = [tree EXCEPT ![At(k).dir] = Remove(@, At(k).name)]
       /\ hist' = [hist EXCEPT !.fetched = @ \cup {k}, !.failedDl = @ \cup {k}]
  /\ UNCHANGED <<testingMode, hasToken, projects, remoteURLs, configExists,
                 existing, cwd, dbs, api, pc,
                 gitlabPackages, remotePackages, desired, listing, cur,
                 failedStep, runNo, kills, faults>>

\* downloadFile: os.Create(filepath) after a 200 response; the body is about
\* to be streamed into the file
DownloadCreate ==
  /\ UNCHANGED aux
  /\ pc = "download"
  /\ \E k \in pending :
       /\ Missing(At(k).name, tree[At(k).dir])
       /\ HttpOutcome(desired[k].URL) \in {"ok", "copyerr"}
       /\ pending' = pending \ {k}
       /\ tree' = [tree EXCEPT ![At(k).dir] =
                     Put(@, At(k).name, Partial(desired[k].URL))]
       /\ cur' = k
       /\ hist' = [hist EXCEPT !.fetched = @ \cup {k}]
  /\ pc' = "streaming"
  /\ UNCHANGED <<testingMode, hasToken, projects, remoteURLs, configExists,
                 existing, cwd, dbs, api,
                 gitlabPackages, remotePackages, desired, listing,
                 failedStep, runNo, kills, faults>>

\* a failed copy whose partial file is left behind
CleanupKeeps(fs, k) == fs

\* downloadNewPackages: os.Remove(localPath) after downloadFile failed
Cleanup(fs, k) == Remove(fs, k)

\* downloadFile: io.Copy ends, with the whole body or with an error
DownloadCopy ==
  /\ UNCHANGED aux
  /\ pc = "streaming"
  /\ IF HttpOutcome(desired[cur].URL) = "ok"
     THEN /\ tree' = [tree EXCEPT ![At(cur).dir] =
                        Put(@, At(cur).name, Full(desired[cur].URL))]
          /\ UNCHANGED hist
     ELSE /\ tree' = [tree EXCEPT ![At(cur).dir] = Cleanup(@, At(cur).name)]
          /\ hist' = [hist EXCEPT !.failedDl = @ \cup {cur}]
  /\ cur' = <<>>
  /\ pc' = "download"
  /\ UNCHANGED <<testingMode, hasToken, projects, remoteURLs, configExists,
                 existing, cwd, dbs, api,
                 gitlabPackages, remotePackages, desired, listing, pending,
                 failedStep, runNo, kills, faults>>

\* a database rebuild that does not wait for the end of the download loop
DbRemoveOldEarly ==
  /\ UNCHANGED aux
  /\ pc = "download"
  /\ \/ /\ cwd' = Dir
        /\ dbs' = [dbs EXCEPT ![cwd'] = RemoveOldDb(@)]
        /\ pc' = "dbbuild"
        /\ UNCHANGED <<failedStep, faults>>
     \/ /\ faults < MaxFaults
        /\ faults' = faults + 1
        /\ Fail("chdir")
        /\ UNCHANGED <<cwd, dbs>>
  /\ hist' = [hist EXCEPT !.originalDir = cwd]
  /\ UNCHANGED <<testingMode, hasToken, projects, remoteURLs, configExists,
                 existing, tree, api,
                 gitlabPackages, remotePackages, desired, listing, pending, cur,
                 runNo, kills>>

\* downloadNewPackages returns nil; updateRepoDatabase: os.Getwd, os.Chdir
\* to the channel directory, which may fail, and os.Remove of the old
\* database files
DbRemoveOld ==
  /\ UNCHANGED aux
  /\ pc = "download"
  /\ pending = {}
  /\ \/ /\ cwd' = Dir
        /\ dbs' = [dbs EXCEPT ![cwd'] = RemoveOldDb(@)]
        /\ pc' = "dbbuild"
        /\ UNCHANGED <<failedStep, faults>>
     \/ /\ faults < MaxFaults
        /\ faults' = faults + 1
        /\ Fail("chdir")
        /\ UNCHANGED <<cwd, dbs>>
  /\ hist' = [hist EXCEPT !.originalDir = cwd]
  /\ UNCHANGED <<testingMode, hasToken, projects, remoteURLs, configExists,
                 existing, tree, api,
                 gitlabPackages, remotePackages, desired, listing, pending, cur,
                 runNo, kills>>

\* a builder that runs the indexing tool whatever it finds
HasPackagesAlways(fs) == TRUE

\* updateRepoDatabase: len(matches) > 0
HasPackages(fs) == Glob(fs) # {}

\* the failures of os.Symlink and of the inspection of a package file are
\* followed in the last invocation of a behaviour, within the fault budget
MayFail(bad) ==
  /\ faults + Cardinality(bad) <= MaxFaults
  /\ bad # {} => runNo = MaxRuns

\* a return that leaves the working directory where the builder put it
DeferredChdirSkipped(original, current) == current

\* updateRepoDatabase: the deferred os.Chdir(originalDir)
DeferredChdir(original, current) == original

\* updateRepoDatabase from filepath.Glob to the return; the results of
\* os.Symlink are discarded, and nothing is logged for a link that was not
\* made
DbBuild ==
  /\ UNCHANGED aux
  /\ pc = "dbbuild"
  /\ cwd' = DeferredChdir(hist.originalDir, cwd)
  /\ IF HasPackages(files) /\ ~RepoAddOk(files)
     THEN /\ hist' = [hist EXCEPT !.repoAdd = Append(@, Glob(files))]
          /\ Fail("db")
          /\ UNCHANGED <<dbs, faults>>
     ELSE \E bad \in SUBSET LinkNames :
            /\ MayFail(bad)
            /\ faults' = faults + Cardinality(bad)
            /\ IF HasPackages(files)
               THEN /\ dbs' = [dbs EXCEPT ![cwd] =
                                 RefreshSymlinks(RepoAdd(@, tree[cwd]), bad)]
                    /\ hist' = [hist EXCEPT
                                  !.repoAdd = Append(@, Glob(files)),
                                  !.linkFailed = bad,
                                  !.log = Append(@, "updated")]
               ELSE /\ dbs' = [dbs EXCEPT ![cwd] =
                                 RefreshSymlinks(WritePlaceholders(@), bad)]
                    /\ hist' = [hist EXCEPT
                                  !.linkFailed = bad,
                                  !.log = Append(@, "created empty")]
            /\ pc' = "json"
            /\ UNCHANGED failedStep
  /\ UNCHANGED <<testingMode, hasToken, projects, remoteURLs, configExists,
                 existing, tree, api,
                 gitlabPackages, remotePackages, desired, listing, pending, cur,
                 runNo, kills>>

\* generatePackagesJSON: os.ReadDir, which may fail, the loop over the
\* entries, in which the inspection of the files in bad fails, and the
\* write of the JSON file
GenerateJSON ==
  /\ UNCHANGED aux
  /\ pc = "json"
  /\ \/ \E bad \in SUBSET Glob(files) :
          /\ MayFail(bad)
          /\ faults' = faults + Cardinality(bad)
          /\ api' = [api EXCEPT ![TargetRepo(testingMode)] =
                       MarshalIndent(PackageList(ReadDir(DOMAIN files), files,
                                                 TargetRepo(testingMode), bad))]
          /\ hist' = [hist EXCEPT !.uninspected = bad,
                                  !.log = Append(@, "generated")]
          /\ pc' = "done"
          /\ UNCHANGED failedStep
     \/ /\ faults < MaxFaults
        /\ faults' = faults + 1
        /\ Fail("json")
        /\ UNCHANGED <<api, hist>>
  /\ UNCHANGED <<testingMode, hasToken, projects, remoteURLs, configExists,
                 existing, cwd, tree, dbs,
                 gitlabPackages, remotePackages, desired, listing, pending, cur,
                 runNo, kills>>

\* the process is terminated while a sync invocation runs
Kill ==
  /\ UNCHANGED aux
  /\ Running
  /\ kills < MaxKills
  /\ kills' = kills + 1
  /\ pc' = "idle"
  /\ listing' = <<>>
  /\ pending' = {}
  /\ cur' = <<>>
  /\ cwd' = LaunchDir
  /\ UNCHANGED <<testingMode, hasToken, projects, remoteURLs, configExists,
                 existing, tree, dbs, api,
                 gitlabPackages, remotePackages, desired, failedStep, runNo,
                 faults, hist>>

----------------------------------------------------------------------------
(* The clean and status commands *)

\* removeAllPackages: the loop over the directory entries; it returns at the
\* entry whose os.Remove fails (bad; no entry is the empty name)
RECURSIVE RemovePackages(_, _, _)
RemovePackages(entries, fs, bad) ==
  IF Len(entries) = 0 THEN fs
  ELSE IF HasPkgSuffix(entries[1])
       THEN IF entries[1] = bad THEN fs
            ELSE RemovePackages(Tail(entries), Remove(fs, entries[1]), bad)
       ELSE RemovePackages(Tail(entries), fs, bad)

\* removeRepositoryDatabase: os.Remove of the four names; a name whose
\* removal fails (stuck) is left, with a warning
RemoveRepositoryDatabase(d, stuck) ==
  [n \in DbNames |-> IF n \in stuck THEN d[n] ELSE Absent]

\* createEmptyPackagesJSON: json.MarshalIndent of []PackageInfo{}
EmptyPackagesJSON == JsonArray(<<>>)

\* a new process: the variables of syncPackages hold nothing
FreshLocals ==
  /\ gitlabPackages' = <<>>
  /\ remotePackages' = <<>>
  /\ desired' = EmptyMap
  /\ listing' = <<>>
  /\ pending' = {}
  /\ cur' = <<>>

Invoked(mode, stuck) ==
  [hist EXCEPT !.before = Outside, !.mode = mode, !.noConfig = FALSE,
               !.stuck = stuck, !.startFiles = files, !.startDb = db,
               !.startApi = api, !.prev = NoRun, !.deleted = {},
               !.fetched = {}, !.failedDl = {}, !.repoAdd = <<>>,
               !.queried = <<>>]

\* cleanCmd
Clean ==
  /\ UNCHANGED aux
  /\ AtRest
  /\ runNo < MaxRuns
  /\ runNo' = runNo + 1
  /\ FreshLocals
  /\ \/ /\ Dir \in existing
        /\ faults < MaxFaults
        /\ faults' = faults + 1
        /\ pc' = "cleanfailed"
        /\ failedStep' = "list"
        /\ hist' = Invoked("clean", {})
        /\ UNCHANGED <<tree, dbs, api, existing>>
     \/ /\ faults < MaxFaults
        /\ \E bad \in Glob(files) :
             tree' = [tree EXCEPT ![Dir] =
                        RemovePackages(ReadDir(DOMAIN files), files, bad)]
        /\ faults' = faults + 1
        /\ pc' = "cleanfailed"
        /\ failedStep' = "remove"
        /\ hist' = Invoked("clean", {})
        /\ UNCHANGED <<dbs, api, existing>>
     \/ \E stuck \in SUBSET {n \in DbNames : db[n] # Absent} :
          /\ faults + Cardinality(stuck) <= MaxFaults
          /\ faults' = faults + Cardinality(stuck)
          /\ tree' = [tree EXCEPT ![Dir] =
                        RemovePackages(ReadDir(DOMAIN files), files, <<>>)]
          /\ dbs' = [dbs EXCEPT ![Dir] = RemoveRepositoryDatabase(@, stuck)]
          /\ existing' = existing \cup {APIDir}
          /\ api' = [api EXCEPT ![TargetRepo(testingMode)] = EmptyPackagesJSON]
          /\ pc' = "cleaned"
          /\ failedStep' = ""
          /\ hist' = Invoked("clean", stuck)
  /\ UNCHANGED <<testingMode, hasToken, projects, remoteURLs, configExists, cwd,
                 kills>>

\* a status command that creates the directories, as a sync run does
StatusCreatesDirectories ==
  /\ existing' = CreateDirectories(existing, Dir)
  /\ UNCHANGED <<tree, dbs, api, configExists, cwd>>

\* showRepositoryStatus: what it does to the directories, the files and the
\* working directory (it calls os.Stat, os.ReadDir and fmt.Print* only)
StatusEffects == UNCHANGED <<tree, dbs, api, existing, configExists, cwd>>

\* statusCmd
Status ==
  /\ UNCHANGED aux
  /\ AtRest
  /\ runNo < MaxRuns
  /\ runNo' = runNo + 1
  /\ FreshLocals
  /\ StatusEffects
  /\ \/ /\ pc' = "reported"
        /\ failedStep' = ""
        /\ UNCHANGED faults
     \/ /\ Dir \in existing
        /\ faults < MaxFaults
        /\ faults' = faults + 1
        /\ pc' = "reportfailed"
        /\ failedStep' = "list"
  /\ hist' = Invoked("status", {})
  /\ UNCHANGED <<testingMode, hasToken, projects, remoteURLs, kills>>

----------------------------------------------------------------------------

Next ==
  \/ Start
  \/ ListDir
  \/ OrphanStep
  \/ OrphansDone
  \/ DownloadSkip
  \/ DownloadRefused
  \/ DownloadCreate
  \/ DownloadCopy
  \/ DbRemoveOld
  \/ DbBuild
  \/ GenerateJSON
  \/ Kill

Spec == Init /\ [][Next]_vars

----------------------------------------------------------------------------
(* The three commands, with or without a token, a configuration file and   *)
(* the directories.                                                        *)

ModesProjects ==
  {<<GitLabProject(id, c, TRUE)>> : id \in {"p2", "pe"}, c \in Channels}

ModesURLs ==
  {<<>>} \cup {<<RemoteURL(Url("h", FileB), c, TRUE)>> : c \in Channels}

ModesFiles ==
  {EmptyMap,
   Put(Put(EmptyMap, FileA, OldFile), FileZ, OldFile),
   Put(EmptyMap, FileB, CorruptFile)}

\* the package directory of the invocations and the API directory do not
\* exist
InitNoDirs ==
  /\ tree = [x \in ChannelDirs \cup ParentDirs |->
               IF x \in ChannelDirs \ {Dir} THEN OtherFiles ELSE EmptyMap]
  /\ dbs = [x \in ChannelDirs |-> IF x = Dir THEN NoDb ELSE StaleDb]
  /\ existing = ChannelDirs \ {Dir}
  /\ cwd = LaunchDir
  /\ api = [c \in Channels |-> NoJson]

InitModes ==
  /\ testingMode \in BOOLEAN
  /\ hasToken \in BOOLEAN
  /\ configExists \in BOOLEAN
  /\ IF configExists
     THEN projects \in ModesProjects /\ remoteURLs \in ModesURLs
     ELSE projects = <<>> /\ remoteURLs = <<>>
  /\ \/ InitNoDirs
     \/ \E f \in ModesFiles, stale \in BOOLEAN :
          /\ InitDisk(f, IF stale THEN StaleDb ELSE NoDb)
          /\ api = [c \in Channels |-> IF stale THEN StaleJson(c) ELSE NoJson]
  /\ hist = InitHist(files, db, api)
  /\ InitLocals

NextModes ==
  \/ Start
  \/ ListDir
  \/ OrphanStep
  \/ OrphansDone
  \/ DownloadSkip
  \/ DownloadRefused
  \/ DownloadCreate
  \/ DownloadCopy
  \/ DbRemoveOld
  \/ DbBuild
  \/ GenerateJSON
  \/ Clean
  \/ Status

SpecModes == InitModes /\ [][NextModes]_vars

----------------------------------------------------------------------------
(* The resolver alone, over every configuration of up to MaxProjects       *)
(* projects and at most one direct URL.                                    *)

ResolveURLs ==
  {<<>>} \cup {<<e>> : e \in {x \in URLEntries :
                     x.URL \in {Url("h", FileA), Url("h", FileB),
                                Url("h", FileA) \o <<" ", " ">>}}}

InitResolve ==
  /\ testingMode \in BOOLEAN
  /\ hasToken = TRUE
  /\ projects \in SeqsUpTo(ProjectEntries, MaxProjects)
  /\ remoteURLs \in ResolveURLs
  /\ configExists = TRUE
  /\ InitDisk(EmptyMap, NoDb)
  /\ api = [c \in Channels |-> NoJson]
  /\ hist = InitHist(files, db, api)
  /\ InitLocals

SpecResolve == InitResolve /\ [][Start]_vars

----------------------------------------------------------------------------
(* The release selector alone, over every configuration of up to           *)
(* MaxProjects entries of the projects that have releases.                 *)

SelectIds == {"p2", "p3", "p11"}

SelectEntries ==
  {GitLabProject(id, r, e) : id \in SelectIds, r \in Channels, e \in BOOLEAN}

InitSelect ==
  /\ testingMode \in BOOLEAN
  /\ hasToken = TRUE
  /\ projects \in SeqsUpTo(SelectEntries, MaxProjects)
  /\ remoteURLs = <<>>
  /\ configExists = TRUE
  /\ InitDisk(EmptyMap, NoDb)
  /\ api = [c \in Channels |-> NoJson]
  /\ hist = InitHist(files, db, api)
  /\ InitLocals

SpecSelect == InitSelect /\ [][Start]_vars

----------------------------------------------------------------------------
(* The direct-source resolver alone, over every configuration of up to     *)
(* MaxURLs direct URLs and no project.                                     *)

InitDirect ==
  /\ testingMode \in BOOLEAN
  /\ hasToken = TRUE
  /\ projects = <<>>
  /\ remoteURLs \in SeqsUpTo(URLEntries, MaxURLs)
  /\ configExists = TRUE
  /\ InitDisk(EmptyMap, NoDb)
  /\ api = [c \in Channels |-> NoJson]
  /\ hist = InitHist(files, db, api)
  /\ InitLocals

SpecDirect == InitDirect /\ [][Start]_vars

----------------------------------------------------------------------------
(* Claims *)

Resolved == runNo > 0

\* the project is declared for both channels: it has an enabled entry for
\* stable and an enabled entry for testing
DeclaredForBoth(id) ==
  /\ \E i \in 1..Len(projects) :
       projects[i] = GitLabProject(id, "stable", TRUE)
  /\ \E i \in 1..Len(projects) :
       projects[i] = GitLabProject(id, "testing", TRUE)
  /\ \A i \in 1..Len(projects) : projects[i].ID = id /\ projects[i].Enabled

\* the packages of the qualifying assets of the n-th newest release
QualifyingAssets(id, n) ==
  LET as == Releases(id)[n]
      q == {i \in 1..Len(as) : HasPkgSuffix(as[i].name) /\ as[i].url[1] = "https:"}
  IN {[Filename |-> as[i].name, URL |-> as[i].url] : i \in q}

ForgeResolved ==
  {[Filename |-> gitlabPackages[i].Filename, URL |-> gitlabPackages[i].URL] :
     i \in 1..Len(gitlabPackages)}

\* C1: for an enabled project declared for both channels that has at least
\* two releases, a testing sync resolves exactly the qualifying assets of the
\* newest release and a stable sync exactly those of the second-newest one.
C1_DualTrackSelection ==
  \A id \in ProjectIds :
    (Resolved /\ DeclaredForBoth(id) /\ ~ListFails(id) /\ Len(Releases(id)) >= 2)
      => ForgeResolved = QualifyingAssets(id, IF testingMode THEN 1 ELSE 2)

\* C2: for an enabled project declared for both channels that has exactly one
\* release, a stable sync resolves nothing from the project and a testing
\* sync resolves the qualifying assets of that release.
C2_SingleReleaseAges ==
  \A id \in ProjectIds :
    (Resolved /\ DeclaredForBoth(id) /\ ~ListFails(id) /\ Len(Releases(id)) = 1)
      => ForgeResolved = IF testingMode THEN QualifyingAssets(id, 1) ELSE {}

ForgeNames == {gitlabPackages[i].Filename : i \in 1..Len(gitlabPackages)}
DirectNames == {remotePackages[i].Filename : i \in 1..Len(remotePackages)}

\* C3: the desired set has one entry per resolved filename, and a filename
\* resolved both from a forge asset and from a direct URL keeps the direct
\* URL's record.
C3_DirectURLWins ==
  Resolved =>
    /\ DOMAIN desired = ForgeNames \cup DirectNames
    /\ \A f \in DOMAIN desired : desired[f].Filename = f
    /\ \A f \in DirectNames :
         \E j \in 1..Len(remotePackages) : desired[f] = remotePackages[j]
    /\ \A f \in ForgeNames \ DirectNames :
         \E i \in 1..Len(gitlabPackages) : desired[f] = gitlabPackages[i]

\* a forge asset and a direct URL with different sources resolve to one name
C3_Witness ==
  /\ Resolved
  /\ \E i \in 1..Len(gitlabPackages), j \in 1..Len(remotePackages) :
       /\ gitlabPackages[i].Filename = remotePackages[j].Filename
       /\ gitlabPackages[i].URL # remotePackages[j].URL
       /\ desired[remotePackages[j].Filename].URL = remotePackages[j].URL

Finished == pc \in {"done", "failed"}

\* C4: after a sync run that ends without a fatal error, every package file
\* of the channel directory is named by a key of the desired set.
C4_NoOrphanSurvives ==
  pc = "done" => \A f \in DOMAIN files : HasPkgSuffix(f) => f \in DOMAIN desired

\* a successful run that removed an orphan and had a download fail
C4_Witness ==
  /\ pc = "done"
  /\ hist.deleted # {}
  /\ hist.failedDl # {}
  /\ \E f \in DOMAIN files : HasPkgSuffix(f)

\* C5: a file that was on disk when the run started and is named by the
\* desired set keeps its content throughout the run, whole or not.
C5_PresentFilesUntouched ==
  Resolved =>
    \A f \in (DOMAIN hist.startFiles) \cap (DOMAIN desired) :
      f \in DOMAIN files /\ files[f] = hist.startFiles[f]

\* a finished run that kept a corrupt desired file while it removed an
\* orphan and downloaded or tried to download another entry
C5_Witness ==
  /\ Finished
  /\ \E f \in (DOMAIN hist.startFiles) \cap (DOMAIN desired) :
       ~hist.startFiles[f].whole /\ files[f] = hist.startFiles[f]
  /\ hist.fetched # {}

\* C6: a sync run that follows a completed run deletes nothing, downloads
\* only what that run left missing, and ends with the same package files,
\* database and JSON metadata.
C6_Idempotent ==
  (hist.prev.valid /\ faults = 0) =>
    /\ hist.deleted = {}
    /\ hist.fetched \subseteq (DOMAIN desired) \ (DOMAIN hist.prev.files)
    /\ Finished =>
         /\ pc = hist.prev.outcome
         /\ files = hist.prev.files
         /\ db = hist.prev.db
         /\ api = hist.prev.api

\* a second run finished after a first run that changed the directory and
\* left an entry missing, which the second run tried again
C6_Witness ==
  /\ hist.prev.valid
  /\ faults = 0
  /\ pc = "done"
  /\ hist.prev.files # hist.init.files
  /\ hist.prev.db # hist.init.db
  /\ hist.fetched # {}

\* the state an uninterrupted sync run reaches from the initial state
ExpectedFiles ==
  LET f0 == hist.init.files
      kept == {f \in DOMAIN f0 : ~(HasPkgSuffix(f) /\ f \notin DOMAIN desired)}
      got == {k \in (DOMAIN desired) \ (DOMAIN f0) :
                HttpOutcome(desired[k].URL) = "ok"}
  IN [f \in kept \cup got |-> IF f \in kept THEN f0[f] ELSE Full(desired[f].URL)]

ExpectedOk == \A f \in DOMAIN ExpectedFiles : HasPkgSuffix(f) => ExpectedFiles[f].whole

ExpectedPkgs == {f \in DOMAIN ExpectedFiles : HasPkgSuffix(f)}

ExpectedDb ==
  [n \in DbNames |->
     IF ~ExpectedOk THEN Absent
     ELSE CASE n = "db" -> Symlink("db.tar.gz")
            [] n = "files" -> Symlink("files.tar.gz")
            [] OTHER -> IF ExpectedPkgs = {} THEN ZeroLength
                        ELSE [kind |-> "index",
                              pkgs |-> [f \in ExpectedPkgs |-> ExpectedFiles[f]],
                              target |-> ""]]

SameAsUninterrupted ==
  /\ files = ExpectedFiles
  /\ db = ExpectedDb
  /\ pc = IF ExpectedOk THEN "done" ELSE "failed"
  /\ ~ExpectedOk => api = hist.init.api
  /\ ExpectedOk =>
       /\ \A c \in Channels \ {TargetRepo(testingMode)} : api[c] = hist.init.api[c]
       /\ api[TargetRepo(testingMode)].items =
            PackageList(ReadDir(DOMAIN ExpectedFiles), ExpectedFiles,
                        TargetRepo(testingMode), {})

\* runs that were never interrupted end in the expected state
UninterruptedRunsAgree ==
  (Finished /\ kills = 0 /\ faults = 0) => SameAsUninterrupted

\* C7: a sync run that completes after an earlier run was terminated at an
\* arbitrary point ends in the state an uninterrupted run ends in.
C7_ConvergesAfterInterruption ==
  (Finished /\ kills > 0 /\ faults = 0) => SameAsUninterrupted

\* the files a failed download leaves and the entries that are still fetched
FailedDownloadsLeaveNothing ==
  /\ \A k \in hist.failedDl : k \notin DOMAIN files
  /\ (hist.failedDl # {} /\ pc \in {"dbbuild", "json", "done", "failed"}) =>
       \A k \in (DOMAIN desired) \ (DOMAIN hist.startFiles) :
         HttpOutcome(desired[k].URL) = "ok" =>
           k \in DOMAIN files /\ files[k] = Full(desired[k].URL)

\* the two archives are built from the package files that are present
RebuiltFromPresent ==
  /\ db["db.tar.gz"] = IF Glob(files) = {} THEN ZeroLength ELSE Index(files)
  /\ db["files.tar.gz"] = db["db.tar.gz"]

\* C8 as written: after a failed download no file remains for its entry, the
\* other missing entries are downloaded, the database is rebuilt from the
\* files that are present, and sync returns no error.
C8_AsWritten ==
  /\ FailedDownloadsLeaveNothing
  /\ (hist.failedDl # {} /\ Finished /\ faults = 0) =>
       /\ pc = "done"
       /\ RebuiltFromPresent

\* C8 as amended: a failed download leaves no file for its entry and the
\* other missing entries are still downloaded; when every package file that
\* is present is a readable archive the database is rebuilt from the files
\* present and sync returns no error; when the indexing tool rejects a file
\* that was on disk before the run, sync returns the error of the indexing
\* tool and the channel has no database.
C8_DownloadFailureIsolated ==
  /\ FailedDownloadsLeaveNothing
  /\ (hist.failedDl # {} /\ pc \in {"json", "done"}) => RebuiltFromPresent
  /\ (hist.failedDl # {} /\ Finished /\ faults = 0) =>
       IF RepoAddOk(files)
       THEN /\ pc = "done"
            /\ RebuiltFromPresent
       ELSE /\ pc = "failed"
            /\ failedStep = "db"
            /\ db = NoDb
            /\ \E f \in (DOMAIN hist.startFiles) \cap (DOMAIN desired) :
                 f \in DOMAIN files /\ ~hist.startFiles[f].whole

\* a successful run in which one download failed, another entry was
\* downloaded, and the database was built from the files present
C8_Witness ==
  /\ pc = "done"
  /\ hist.failedDl # {}
  /\ hist.fetched \ hist.failedDl # {}
  /\ db["db.tar.gz"].kind = "index"

\* C9: when the metadata extractor finds no package record, the JSON file
\* of the channel is written and holds the empty array.
C9_EmptyMetadataIsArray ==
  (pc = "done"
   /\ \A f \in Glob(files) : ~InspectOk(f, files[f], hist.uninspected)) =>
    api[TargetRepo(testingMode)] = JsonArray(<<>>)

\* C10: with no package file in the channel directory the database builder
\* does not run the indexing tool, writes zero-length archives, creates both
\* stable-named symlinks and returns no error.
C10_EmptyRepositoryPlaceholders ==
  LET built == pc \in {"json", "done"} \/ (pc = "failed" /\ failedStep = "db")
  IN (built /\ Glob(files) = {}) =>
    /\ pc # "failed"
    /\ hist.repoAdd = <<>>
    /\ db["db.tar.gz"] = ZeroLength
    /\ db["files.tar.gz"] = ZeroLength
    /\ "db" \notin hist.linkFailed => db["db"] = Symlink("db.tar.gz")
    /\ "files" \notin hist.linkFailed => db["files"] = Symlink("files.tar.gz")

\* the builder has just returned for a directory emptied by orphan removal,
\* replacing the database of an earlier run
C10_Witness ==
  /\ pc = "json"
  /\ Glob(files) = {}
  /\ hist.deleted # {}
  /\ hist.init.db = StaleDb
  /\ db["db.tar.gz"] = ZeroLength

\* C16: when the orphan-removal step cannot list the channel directory or
\* cannot delete an orphan, the sync run ends with that error: it attempts no
\* download, does not rebuild the database and does not rewrite the JSON
\* metadata.
C16_OrphanFailureAborts ==
  failedStep = "orphans" =>
    /\ pc = "failed"
    /\ hist.fetched = {}
    /\ hist.repoAdd = <<>>
    /\ db = hist.startDb
    /\ api = hist.startApi
    /\ \A f \in DOMAIN files : f \in DOMAIN hist.startFiles /\ files[f] = hist.startFiles[f]

\* the deletion of an orphan failed in a run that had entries to download,
\* over a database and a JSON file of an earlier run
C16_Witness ==
  /\ pc = "failed"
  /\ failedStep = "orphans"
  /\ \E f \in DOMAIN files : IsOrphan(f, desired)
  /\ \E k \in DOMAIN desired : Missing(k, files)
  /\ db = StaleDb

\* C20: after a sync run that ends without error the database indexes exactly
\* the package files present in the channel directory: the previous archives
\* were removed first and the indexing tool ran once, with the full list of
\* the package files on disk.
C20_DatabaseMatchesDirectory ==
  pc = "done" =>
    /\ \A n \in {"db.tar.gz", "files.tar.gz"} :
         /\ DOMAIN db[n].pkgs = Glob(files)
         /\ \A f \in Glob(files) : db[n].pkgs[f] = files[f]
    /\ Glob(files) # {} => hist.repoAdd = <<Glob(files)>>
    /\ Glob(files) = {} => hist.repoAdd = <<>>

\* a successful run that replaced a database indexing a file no longer
\* present by one indexing the file it downloaded
C20_Witness ==
  /\ pc = "done"
  /\ hist.startDb = StaleDb
  /\ FileB \notin DOMAIN files
  /\ hist.deleted # {}
  /\ \E k \in hist.fetched \ hist.failedDl : k \in DOMAIN db["db.tar.gz"].pkgs

\* the listing of the project's releases succeeds and is not empty
Healthy(p) == ~ListFails(p.ID) /\ Len(Releases(p.ID)) > 0

\* C17: an enabled project whose release listing fails or is empty
\* contributes nothing; every other enabled project is still queried and
\* contributes what it contributes without the failing ones; the resolver
\* returns no error.
C17_ProjectFailureIsolated ==
  (Resolved /\ hasToken) =>
    /\ pc # "failed"
    /\ hist.queried = ListedProjects(projects)
    /\ gitlabPackages =
         FetchGitLabPackages(TRUE, SelectSeq(projects, Healthy),
                             TargetRepo(testingMode))

\* the listing of the first enabled project failed, and the project after it
\* contributed packages
C17_Witness ==
  /\ Resolved
  /\ hasToken
  /\ Len(projects) = 2
  /\ projects[1].Enabled
  /\ ListFails(projects[1].ID)
  /\ gitlabPackages # <<>>
  /\ hist.queried = <<projects[1].ID, projects[2].ID>>

\* the first enabled project has no release, and the project after it
\* contributed packages
C17_WitnessNoRelease ==
  /\ Resolved
  /\ Len(projects) = 2
  /\ projects[1].Enabled
  /\ ~ListFails(projects[1].ID)
  /\ Len(Releases(projects[1].ID)) = 0
  /\ gitlabPackages # <<>>

\* the part of a URL before its first "?"
RECURSIVE CutAtQuery(_)
CutAtQuery(u) ==
  IF Len(u) = 0 \/ u[1] = "?" THEN <<>> ELSE <<u[1]>> \o CutAtQuery(Tail(u))

\* the last element of the URL path, the query string left out
PathBasename(u) ==
  LET q == CutAtQuery(u)
      e == CHOOSE i \in 0..Len(q) :
             /\ i > 0 => q[i] # "/"
             /\ \A j \in (i + 1)..Len(q) : q[j] = "/"
      b == CHOOSE i \in 0..e :
             /\ i > 0 => q[i] = "/"
             /\ \A j \in (i + 1)..e : q[j] # "/"
  IN SubSeq(q, b + 1, e)

\* the entry is enabled, is of the active channel, and its URL as written
\* ends with the package suffix
AcceptedAsWritten(e) ==
  e.Enabled /\ e.Repository = TargetRepo(testingMode) /\ HasPkgSuffix(e.URL)

\* the entry is enabled, is of the active channel, and its URL without the
\* surrounding white space ends with the package suffix
AcceptedTrimmed(e) ==
  e.Enabled /\ e.Repository = TargetRepo(testingMode)
  /\ HasPkgSuffix(TrimSpace(e.URL))

\* C19 as stated: the direct resolver returns a record for an entry exactly
\* when the entry is enabled, of the active channel, and its URL ends with
\* the package suffix; the filename is the basename of the URL path without
\* the query string; the resolver never fails.
C19_DirectResolverAsWritten ==
  Resolved =>
    LET sel == SelectSeq(remoteURLs, AcceptedAsWritten)
    IN /\ pc # "failed"
       /\ Len(remotePackages) = Len(sel)
       /\ \A i \in 1..Len(sel) :
            remotePackages[i].Filename = PathBasename(sel[i].URL)

\* C19, amended: the direct resolver returns a record for an entry exactly
\* when the entry is enabled, of the active channel, and its URL with leading
\* and trailing white space trimmed ends with the package suffix; the record
\* holds the trimmed URL, and its filename is the basename of the trimmed URL
\* cut at the first "?"; the resolver never fails.
C19_DirectResolver ==
  Resolved =>
    LET sel == SelectSeq(remoteURLs, AcceptedTrimmed)
    IN /\ pc # "failed"
       /\ Len(remotePackages) = Len(sel)
       /\ \A i \in 1..Len(sel) :
            remotePackages[i] =
              RemotePackage(PathBasename(TrimSpace(sel[i].URL)),
                            TrimSpace(sel[i].URL), sel[i].Repository)

\* a URL written with trailing white space and a URL whose suffix is inside
\* its query string were both resolved
C19_Witness ==
  /\ Resolved
  /\ Len(remoteURLs) = 2
  /\ Len(remotePackages) = 2
  /\ remoteURLs[1].URL # TrimSpace(remoteURLs[1].URL)
  /\ remotePackages[1].Filename = FileA
  /\ remotePackages[2].Filename = <<"x">>

\* an entry of the other channel and a URL with the suffix before its query
\* string were both dropped
C19_WitnessDropped ==
  /\ Resolved
  /\ Len(remoteURLs) = 2
  /\ remoteURLs[1].Enabled
  /\ remoteURLs[1].Repository # TargetRepo(testingMode)
  /\ remoteURLs[2] = RemoteURL(Url("h", FileA \o <<"?", "v">>),
                               TargetRepo(testingMode), TRUE)
  /\ remotePackages = <<>>

\* every entry of the configuration is an enabled entry of the project, and
\* all of them name the active channel
DeclaredForActiveOnly(id) ==
  /\ Len(projects) > 0
  /\ \A i \in 1..Len(projects) :
       projects[i] = GitLabProject(id, TargetRepo(testingMode), TRUE)

\* the release of the project with the greatest creation time
LatestCreated(id) ==
  LET rs == ForgeReleases(id)
  IN rs[CHOOSE i \in 1..Len(rs) : \A j \in 1..Len(rs) : rs[j].created <= rs[i].created]

QualifyingOf(as) ==
  {[Filename |-> as[i].name, URL |-> as[i].url] :
     i \in {j \in 1..Len(as) : HasPkgSuffix(as[j].name) /\ as[j].url[1] = "https:"}}

\* C18: for a project declared for one channel only, the release whose
\* assets are resolved is the one with the greatest creation time among all
\* the releases of the project, whatever the order in which the forge lists
\* them and however many pages the listing has.
C18_LatestCreatedRelease ==
  \A id \in SelectIds :
    (Resolved /\ DeclaredForActiveOnly(id) /\ ~ListFails(id)
       /\ Len(ForgeReleases(id)) > 0)
      => ForgeResolved = QualifyingOf(LatestCreated(id).assets)

\* C11: after a clean invocation that reports success the channel directory
\* holds no package file, none of the four database names exists, and the
\* JSON file of the channel is the empty array; the invocation read no
\* configuration and queried no project.
C11_CleanLeavesNothing ==
  pc = "cleaned" =>
    /\ Glob(files) = {}
    /\ \A n \in DbNames : db[n] = Absent
    /\ api[TargetRepo(testingMode)] = JsonArray(<<>>)
    /\ configExists = hist.before.configExists
    /\ hist.queried = <<>>

\* C12: a sync invocation that finds no configuration file writes the
\* template and does nothing else: it deletes no package file, attempts no
\* download, does not rebuild the database and does not rewrite the JSON
\* metadata.
C12_AbsentConfigIsNoOp ==
  (hist.mode = "sync" /\ hist.noConfig) =>
    /\ configExists
    /\ hist.deleted = {}
    /\ hist.fetched = {}
    /\ tree = hist.before.tree
    /\ dbs = hist.before.dbs
    /\ api = hist.before.api

\* C13: a sync invocation without a token is rejected before any file is
\* created, deleted or downloaded; clean and status proceed without a token.
C13_SyncNeedsToken ==
  /\ (hist.mode = "sync" /\ ~hasToken) =>
       /\ pc = "failed"
       /\ failedStep = "token"
       /\ hist.fetched = {}
       /\ tree = hist.before.tree
       /\ dbs = hist.before.dbs
       /\ api = hist.before.api
  /\ (hist.mode = "clean" /\ ~hasToken /\ faults = 0) => pc = "cleaned"
  /\ (hist.mode = "status" /\ ~hasToken /\ faults = 0) => pc = "reported"

\* C14: a status invocation changes no directory, no package file, no
\* database file, neither JSON file, not the configuration file and not the
\* working directory, whether or not the channel directory exists.
C14_StatusChangesNothing ==
  hist.mode = "status" =>
    /\ Outside = hist.before
    /\ cwd = LaunchDir

\* a status invocation has reported on a channel directory that holds a
\* package file and a database
C14_Witness ==
  /\ pc = "reported"
  /\ Dir \in existing
  /\ Glob(files) # {}
  /\ db = StaleDb

\* a status invocation has reported while the channel directory, the API
\* directory and the configuration file do not exist
C14_WitnessNoDirectory ==
  /\ pc = "reported"
  /\ Dir \notin existing
  /\ APIDir \notin existing
  /\ ~configExists

\* the package directory of a channel with the default flags
DefaultDir(c) == IF c = "testing" THEN <<"testing", "/", "x86_64">> ELSE <<"x86_64">>

\* C15: with the default directories a sync or clean invocation for one
\* channel leaves the package files, the database files and the JSON file of
\* the other channel as they were; what is written is the package directory
\* and the JSON file of the active channel.
C15_OtherChannelUntouched ==
  \A c \in Channels \ {TargetRepo(testingMode)} :
    /\ tree[DefaultDir(c)] = hist.before.tree[DefaultDir(c)]
    /\ dbs[DefaultDir(c)] = hist.before.dbs[DefaultDir(c)]
    /\ api[c] = hist.before.api[c]

\* a sync run for the testing channel has changed the package files, the
\* database and the JSON file of that channel, while the stable channel's
\* directory holds package files and a database
C15_Witness ==
  /\ testingMode
  /\ pc = "done"
  /\ tree[DefaultDir("testing")] # hist.before.tree[DefaultDir("testing")]
  /\ dbs[DefaultDir("testing")] # hist.before.dbs[DefaultDir("testing")]
  /\ api["testing"] # hist.before.api["testing"]
  /\ tree[DefaultDir("stable")] = OtherFiles
  /\ dbs[DefaultDir("stable")] = StaleDb

\* a clean run for the stable channel has emptied that channel's directory
\* while the testing channel's directory holds package files and a database
C15_WitnessClean ==
  /\ ~testingMode
  /\ pc = "cleaned"
  /\ Glob(hist.before.tree[DefaultDir("stable")]) # {}
  /\ Glob(tree[DefaultDir("stable")]) = {}
  /\ tree[DefaultDir("testing")] = OtherFiles

\* C27: every key of the merged desired set ends with the package suffix,
\* for forge assets and for direct URLs alike, so that every file a sync run
\* has downloaded is indexed by the database the run builds.
C27_DesiredKeysAreArchives ==
  Resolved =>
    /\ \A k \in DOMAIN desired : HasPkgSuffix(k)
    /\ pc = "done" =>
         \A k \in hist.fetched \ hist.failedDl :
           k \in DOMAIN db["db.tar.gz"].pkgs

\* the steps of a sync run in their order, and the step each one follows
StepOrder ==
  {<<"orphans", "removing">>, <<"removing", "download">>,
   <<"download", "streaming">>, <<"streaming", "download">>,
   <<"download", "dbbuild">>, <<"dbbuild", "json">>, <<"json", "done">>}

\* a change of position is the start of a run, the next step of the run, the
\* return of a fatal error, or the end of the process
OrderedStep ==
  pc' # pc =>
    \/ AtRest /\ pc' \in {"orphans", "cleaned", "cleanfailed", "reported",
                           "reportfailed"}
    \/ <<pc, pc'>> \in StepOrder
    \/ pc \in {"orphans", "removing", "download", "dbbuild", "json"}
         /\ pc' = "failed"
    \/ Running /\ pc' = "idle"

\* what each step of a sync run finds done and not yet done
StepsInOrder ==
  /\ pc \in {"orphans", "removing"} =>
       /\ DOMAIN desired = ForgeNames \cup DirectNames
       /\ hist.fetched = {}
  /\ pc \in {"orphans", "removing", "download", "streaming"} =>
       /\ hist.repoAdd = <<>>
       /\ db = hist.startDb
  /\ pc \in {"download", "streaming", "dbbuild", "json", "done"} =>
       \A f \in DOMAIN files : ~IsOrphan(f, desired)
  /\ pc \in {"dbbuild", "json", "done"} =>
       /\ pending = {}
       /\ cur = <<>>
       /\ \A k \in DOMAIN desired : k \in DOMAIN files \/ k \in hist.failedDl
  /\ pc \in {"orphans", "removing", "download", "streaming", "dbbuild", "json"} =>
       api = hist.startApi
  /\ pc \in {"json", "done"} =>
       \A n \in {"db.tar.gz", "files.tar.gz"} : DOMAIN db[n].pkgs = Glob(files)

\* C21: a sync run resolves, merges, removes orphans, downloads, rebuilds the
\* database and writes the JSON metadata in that order; a step starts only
\* after the step before it ended without a fatal error, no download comes
\* before the end of orphan removal, and the database and the metadata are
\* built from the files the completed download step left.
C21_StepOrder == [][OrderedStep]_vars /\ []StepsInOrder

\* a run that removed an orphan, downloaded a file, ran the indexing tool and
\* rewrote the JSON metadata has returned
C21_Witness ==
  /\ pc = "done"
  /\ hist.deleted # {}
  /\ hist.fetched \ hist.failedDl # {}
  /\ hist.failedDl # {}
  /\ hist.repoAdd # <<>>
  /\ api # hist.startApi

\* the project is enabled and nothing is resolved from it: no client exists,
\* or the listing of its releases fails or is empty
Silent(p) ==
  p.Enabled /\ (~hasToken \/ ListFails(p.ID) \/ Len(Releases(p.ID)) = 0)

\* C29: in a sync run in which an enabled project yields nothing (its listing
\* fails or is empty, or there is no client), every package file on disk
\* that no other source provides is outside the desired set and is deleted
\* by the orphan removal of that run.
C29_SilentProjectFilesDeleted ==
  (hist.mode = "sync"
   /\ (\E i \in 1..Len(projects) : Silent(projects[i]))
   /\ pc \in {"download", "streaming", "dbbuild", "json", "done"}) =>
    \A f \in Glob(hist.startFiles) :
      f \notin ForgeNames \cup DirectNames =>
        /\ f \notin DOMAIN desired
        /\ f \in hist.deleted
        /\ f \notin DOMAIN files

\* the listing of the only project failed and the run, which has returned,
\* deleted a package file that was on disk
C29_Witness ==
  /\ pc = "done"
  /\ hasToken
  /\ Len(projects) = 1
  /\ projects[1].Enabled
  /\ ListFails(projects[1].ID)
  /\ FileA \in hist.deleted

\* a run without a token has returned; it deleted the package file that the
\* release of the configured project provides
C29_WitnessNoToken ==
  /\ pc = "done"
  /\ ~hasToken
  /\ Len(projects) = 1
  /\ projects[1] = GitLabProject("p2", TargetRepo(testingMode), TRUE)
  /\ FileA \in hist.deleted

\* C30: when the indexing tool fails, sync returns an error; the database
\* archives and links of the previous run are deleted and not restored, the
\* JSON metadata file holds what it held before the run, and the channel
\* directory holds package files and no database.
C30_FailedIndexingLeavesNoDatabase ==
  (pc = "failed" /\ failedStep = "db") =>
    /\ Glob(files) # {}
    /\ hist.repoAdd = <<Glob(files)>>
    /\ db = NoDb
    /\ api = hist.startApi

\* the indexing tool failed in a run that started with a database and a
\* JSON file of an earlier run
C30_Witness ==
  /\ pc = "failed"
  /\ failedStep = "db"
  /\ hist.startDb = StaleDb
  /\ hist.startApi[TargetRepo(testingMode)] = StaleJson(TargetRepo(testingMode))

\* C22: whenever the database builder has returned, with success or with an
\* error, the working directory of the process is the one it had when the
\* builder was called; inside the builder it is the channel directory.
C22_WorkingDirectoryRestored ==
  /\ pc = "dbbuild" => cwd = Dir /\ cwd # hist.originalDir
  /\ (pc \in {"json", "done"}
      \/ (pc = "failed" /\ failedStep \in {"chdir", "db", "json"})) =>
       cwd = hist.originalDir

\* the builder has returned the error of the indexing tool
C22_Witness ==
  /\ pc = "failed"
  /\ failedStep = "db"
  /\ hist.repoAdd # <<>>
  /\ cwd = LaunchDir

\* the builder has returned the error of os.Chdir
C22_WitnessChdir ==
  /\ pc = "failed"
  /\ failedStep = "chdir"
  /\ cwd = LaunchDir

\* the builder has returned nil
C22_WitnessBuilt ==
  /\ pc = "json"
  /\ hist.log # <<>>
  /\ cwd = LaunchDir

\* the archive a stable name points at
LinkTarget(n) == IF n = "db" THEN "db.tar.gz" ELSE "files.tar.gz"

\* the log line of a link that could not be made
SymlinkWarning == "symlink warning"

\* C23: when the database builder has returned nil, each of the two stable
\* names is a link to its versioned archive, or the link could not be made,
\* a warning was logged for it, and the build did not fail.
C23_SymlinksRefreshed ==
  pc \in {"json", "done"} =>
    \A n \in LinkNames :
      \/ db[n] = Symlink(LinkTarget(n))
      \/ /\ n \in hist.linkFailed
         /\ \E i \in 1..Len(hist.log) : hist.log[i] = SymlinkWarning

\* the position of a name in a directory listing
PosIn(entries, f) == CHOOSE i \in 1..Len(entries) : entries[i] = f

\* C24: the JSON file a sync run has written holds one record for each
\* package file on disk whose inspection succeeded and no other record, in
\* the order of the directory listing, each with the active channel; a file
\* whose inspection fails is left out and the records of the other files
\* are written.
C24_MetadataRecords ==
  pc = "done" =>
    LET repo == TargetRepo(testingMode)
        items == api[repo].items
        entries == ReadDir(DOMAIN files)
        ok == {f \in Glob(files) : InspectOk(f, files[f], hist.uninspected)}
    IN /\ api[repo].kind \in {"array", "null"}
       /\ Len(items) = Cardinality(ok)
       /\ {items[i].Filename : i \in 1..Len(items)} = ok
       /\ \A i \in 1..Len(items) :
            /\ items[i].Repository = repo
            /\ items[i].Source = files[items[i].Filename].src
       /\ \A i, j \in 1..Len(items) :
            i < j => PosIn(entries, items[i].Filename)
                       < PosIn(entries, items[j].Filename)

\* the inspection of a file failed and the record of a file that comes
\* later in the directory listing was written
C24_Witness ==
  /\ pc = "done"
  /\ LET items == api[TargetRepo(testingMode)].items
         entries == ReadDir(DOMAIN files)
     IN \E f \in hist.uninspected : \E i \in 1..Len(items) :
          PosIn(entries, f) < PosIn(entries, items[i].Filename)

----------------------------------------------------------------------------
(* Sync runs for a project whose release has an asset named with a leading *)
(* "..".                                                                   *)

PathsProjects == {<<GitLabProject("pt", c, TRUE)>> : c \in Channels}

InitPaths ==
  /\ testingMode \in BOOLEAN
  /\ hasToken = TRUE
  /\ projects \in PathsProjects
  /\ remoteURLs = <<>>
  /\ configExists = TRUE
  /\ \E f \in InitFiles, stale \in BOOLEAN :
       /\ InitDisk(f, IF stale THEN StaleDb ELSE NoDb)
       /\ api = [c \in Channels |-> IF stale THEN StaleJson(c) ELSE NoJson]
  /\ hist = InitHist(files, db, api)
  /\ InitLocals

SpecPaths == InitPaths /\ [][Next]_vars

\* C28: every file a sync run creates, writes or deletes is a direct child
\* of the channel directory of the run: the other directories hold what they
\* held before the first run.
C28_WritesStayInChannelDir ==
  \A d \in (DOMAIN tree) \ {Dir} :
    tree[d] = IF d \in ChannelDirs THEN OtherFiles ELSE EmptyMap

----------------------------------------------------------------------------
(* extractPackageInfo alone, over outputs of pacman -Qip that hold any     *)
(* subset of the lines it looks for.                                       *)

\* the keys extractPackageInfo looks for, in the order pacman prints them
InfoKeys ==
  <<<<"Name">>, <<"Version">>, <<"Description">>, <<"Architecture">>,
    <<"Depends", " ", "On">>, <<"Groups">>>>

\* the field of PackageInfo the line of a key is stored in
FieldOf(key) ==
  CASE key = <<"Name">> -> "Name"
    [] key = <<"Version">> -> "Version"
    [] key = <<"Description">> -> "Description"
    [] key = <<"Architecture">> -> "Architecture"
    [] key = <<"Depends", " ", "On">> -> "Depends"
    [] key = <<"Groups">> -> "Groups"
    [] OTHER -> ""

\* the position of the first ":" of a line, 0 when it has none
RECURSIVE ColonAt(_, _)
ColonAt(line, i) ==
  IF i > Len(line) THEN 0
  ELSE IF line[i] = ":" THEN i ELSE ColonAt(line, i + 1)

\* strings.SplitN(line, ":", 2)
SplitN2(line) ==
  LET i == ColonAt(line, 1)
  IN IF i = 0 THEN <<line>>
     ELSE <<SubSeq(line, 1, i - 1), SubSeq(line, i + 1, Len(line))>>

\* extractPackageInfo: the PackageInfo before the output is scanned
NewInfo ==
  [called |-> TRUE, err |-> FALSE,
   Name |-> <<>>, Version |-> <<>>, Description |-> <<>>,
   Architecture |-> <<>>, Depends |-> <<"None">>, Groups |-> <<"None">>]

\* extractPackageInfo returns an error: pacman -Qip or os.Stat failed
ExtractError == [called |-> TRUE, err |-> TRUE]

\* extractPackageInfo: the body of the loop over the lines of the output
ScanLine(i, line) ==
  LET parts == SplitN2(line)
  IN IF Len(parts) # 2 THEN i
     ELSE LET key == TrimSpace(parts[1])
              value == TrimSpace(parts[2])
          IN IF FieldOf(key) = "" THEN i
             ELSE [i EXCEPT ![FieldOf(key)] = value]

\* extractPackageInfo: the loop over the lines of the output
RECURSIVE Scan(_, _)
Scan(i, lines) ==
  IF Len(lines) = 0 THEN i ELSE Scan(ScanLine(i, lines[1]), Tail(lines))

\* the line pacman -Qip prints for a key: the key, padding, ": " and the
\* value; the description holds a colon
OutputLine(key) ==
  key \o <<" ", " ", ":", " ">>
      \o (IF key = <<"Description">> THEN <<"a", ":", " ", "b">> ELSE <<"v">>)

\* an output with the lines of the keys in S, after a line without a colon
\* when there is a warning
RECURSIVE OutputOf(_, _)
OutputOf(keys, S) ==
  IF Len(keys) = 0 THEN <<>>
  ELSE (IF keys[1] \in S THEN <<OutputLine(keys[1])>> ELSE <<>>)
       \o OutputOf(Tail(keys), S)

PacmanOutputs ==
  {(IF w THEN <<<<"warning">>>> ELSE <<>>) \o OutputOf(InfoKeys, S) :
     w \in BOOLEAN,
     S \in SUBSET {InfoKeys[i] : i \in 1..Len(InfoKeys)}}

\* extractPackageInfo
ExtractPackageInfo ==
  /\ ~info.called
  /\ info' \in {Scan(NewInfo, pacmanOutput), ExtractError}
  /\ UNCHANGED <<testingMode, hasToken, projects, remoteURLs, configExists,
                 existing, tree, dbs, cwd, api, pc,
                 gitlabPackages, remotePackages, desired, listing, pending, cur,
                 failedStep, runNo, kills, faults, hist, other, pacmanOutput,
                 configEmpty>>

InitExtract ==
  /\ testingMode = FALSE
  /\ hasToken = TRUE
  /\ projects = <<>>
  /\ remoteURLs = <<>>
  /\ configExists = TRUE
  /\ InitDisk(Put(EmptyMap, FileA, OldFile), NoDb)
  /\ api = [c \in Channels |-> NoJson]
  /\ hist = InitHist(files, db, api)
  /\ other = NoProcess
  /\ configEmpty = FALSE
  /\ pacmanOutput \in PacmanOutputs
  /\ info = NoInfo
  /\ pc = "json"
  /\ gitlabPackages = <<>>
  /\ remotePackages = <<>>
  /\ desired = EmptyMap
  /\ listing = <<>>
  /\ pending = {}
  /\ cur = <<>>
  /\ failedStep = ""
  /\ runNo = 1
  /\ kills = 0
  /\ faults = 0

SpecExtract == InitExtract /\ [][ExtractPackageInfo]_vars

\* the output has a line with the key
HasKey(lines, key) ==
  \E i \in 1..Len(lines) :
    /\ Len(SplitN2(lines[i])) = 2
    /\ TrimSpace(SplitN2(lines[i])[1]) = key

\* C25: in the record extractPackageInfo returns, every field (name,
\* version, description, architecture, depends, groups) whose key is absent
\* from the output of the tool holds "None".
C25_AbsentFieldsAreNone ==
  (info.called /\ ~info.err) =>
    \A k \in 1..Len(InfoKeys) :
      ~HasKey(pacmanOutput, InfoKeys[k]) => info[FieldOf(InfoKeys[k])] = <<"None">>

----------------------------------------------------------------------------
(* Two processes, a sync invocation for each channel, against the same     *)
(* checkout. The variables of an invocation are those of the process that  *)
(* runs; other holds those of the process that is suspended.               *)

\* what is private to the process of an invocation, with the position at
\* which the process now resumed took up its work, whether a process has
\* taken steps while the other one was inside the database builder, and the
\* configuration packages_config.yaml holds once it is written
Saved(resumedPc, overlap) ==
  [alive |-> TRUE, resumedPc |-> resumedPc, overlap |-> overlap,
   config |-> other.config,
   testingMode |-> testingMode,
   hasToken |-> hasToken,
   projects |-> projects,
   remoteURLs |-> remoteURLs,
   cwd |-> cwd,
   pc |-> pc,
   gitlabPackages |-> gitlabPackages,
   remotePackages |-> remotePackages,
   desired |-> desired,
   listing |-> listing,
   pending |-> pending,
   cur |-> cur,
   failedStep |-> failedStep,
   runNo |-> runNo,
   kills |-> kills,
   faults |-> faults,
   hist |-> hist]

\* one working directory for both processes
ResumedDirShared(saved, current) == current

\* the working directory of a process that resumes: each process has its own
ResumedDir(saved, current) == saved

\* the scheduler suspends the running process and resumes the other one
Switch ==
  /\ other.alive
  /\ testingMode' = other.testingMode
  /\ hasToken' = other.hasToken
  /\ projects' = other.projects
  /\ remoteURLs' = other.remoteURLs
  /\ pc' = other.pc
  /\ gitlabPackages' = other.gitlabPackages
  /\ remotePackages' = other.remotePackages
  /\ desired' = other.desired
  /\ listing' = other.listing
  /\ pending' = other.pending
  /\ cur' = other.cur
  /\ failedStep' = other.failedStep
  /\ runNo' = other.runNo
  /\ kills' = other.kills
  /\ faults' = other.faults
  /\ hist' = other.hist
  /\ cwd' = ResumedDir(other.cwd, cwd)
  /\ other' = Saved(other.pc,
                    other.overlap
                      \/ (other.pc = "dbbuild" /\ pc # other.resumedPc))
  /\ UNCHANGED <<configExists, configEmpty, existing, tree, dbs, api,
                 pacmanOutput, info>>

\* readPackagesConfig: os.Stat reports that packages_config.yaml does not
\* exist
StatConfig ==
  /\ pc = "idle"
  /\ runNo < MaxRuns
  /\ ~configExists
  /\ pc' = "noconfig"
  /\ UNCHANGED <<testingMode, hasToken, projects, remoteURLs, existing, tree,
                 dbs, cwd, api, gitlabPackages, remotePackages, desired,
                 listing, pending, cur, failedStep, runNo, kills, faults, hist,
                 other, pacmanOutput, info, configExists, configEmpty>>

\* readPackagesConfig: os.WriteFile creates or truncates the file; its
\* content is written when the process takes its next step
CreateConfig ==
  /\ pc = "noconfig"
  /\ configExists' = TRUE
  /\ configEmpty' = TRUE
  /\ pc' = "creating"
  /\ UNCHANGED <<testingMode, hasToken, projects, remoteURLs, existing, tree,
                 dbs, cwd, api, gitlabPackages, remotePackages, desired,
                 listing, pending, cur, failedStep, runNo, kills, faults, hist,
                 other, pacmanOutput, info>>

\* the configuration both processes read
PairProjects ==
  <<GitLabProject("p2", "stable", TRUE), GitLabProject("p2", "testing", TRUE)>>

PairURLs == {<<>>, <<RemoteURL(Url("h", FileB), "testing", TRUE)>>}

\* what packages_config.yaml holds, or will hold when it has been created
PairConfig(exists, us) ==
  IF exists THEN [projects |-> PairProjects, remoteURLs |-> us]
  ELSE [projects |-> TemplateProjects, remoteURLs |-> TemplateURLs]

\* the process of the testing channel before it has run a step
InitOther(config) ==
  LET d == RepoArchDir(TRUE)
  IN [alive |-> TRUE, resumedPc |-> "idle", overlap |-> FALSE,
      config |-> config,
      testingMode |-> TRUE, hasToken |-> TRUE, projects |-> config.projects,
      remoteURLs |-> config.remoteURLs, cwd |-> LaunchDir, pc |-> "idle",
      gitlabPackages |-> <<>>, remotePackages |-> <<>>, desired |-> EmptyMap,
      listing |-> <<>>, pending |-> {}, cur |-> <<>>, failedStep |-> "",
      runNo |-> MaxRuns - 1, kills |-> 0, faults |-> 0,
      hist |-> InitHist(tree[d], dbs[d], api)]

\* each process is one invocation; packages_config.yaml exists or not
InitPair ==
  /\ testingMode = FALSE
  /\ hasToken = TRUE
  /\ configExists \in BOOLEAN
  /\ configEmpty = FALSE
  /\ \E us \in PairURLs :
       /\ projects = PairConfig(configExists, us).projects
       /\ remoteURLs = PairConfig(configExists, us).remoteURLs
       /\ configExists \/ us = <<>>
  /\ \E f \in ModesFiles : InitDisk(f, StaleDb)
  /\ api = [c \in Channels |-> StaleJson(c)]
  /\ hist = InitHist(files, db, api)
  /\ other = InitOther([projects |-> projects, remoteURLs |-> remoteURLs])
  /\ pacmanOutput = <<>>
  /\ info = NoInfo
  /\ pc = "idle"
  /\ gitlabPackages = <<>>
  /\ remotePackages = <<>>
  /\ desired = EmptyMap
  /\ listing = <<>>
  /\ pending = {}
  /\ cur = <<>>
  /\ failedStep = ""
  /\ runNo = MaxRuns - 1
  /\ kills = 0
  /\ faults = 0

NextPair ==
  \/ StatConfig
  \/ CreateConfig
  \/ Start
  \/ ListDir
  \/ OrphanStep
  \/ OrphansDone
  \/ DownloadSkip
  \/ DownloadRefused
  \/ DownloadCreate
  \/ DownloadCopy
  \/ DbRemoveOld
  \/ DbBuild
  \/ GenerateJSON
  \/ Switch

SpecPair == InitPair /\ [][NextPair]_vars

\* ---- the interleavings of the two invocations, enumerated ----

\* the configuration readPackagesConfig writes when the file is absent
TemplateConfig == [projects |-> TemplateProjects, remoteURLs |-> TemplateURLs]

\* the configuration yaml.Unmarshal yields for a file without content
EmptyConfig == [projects |-> <<>>, remoteURLs |-> <<>>]

\* syncPackages: the desired set of the channel under a configuration
DesiredOf(config, testing) ==
  MergePackages(FetchGitLabPackages(TRUE, config.projects, TargetRepo(testing)),
                FetchRemoteURLPackages(config.remoteURLs, TargetRepo(testing)))

\* an invocation that has not run a step: its position, its local variables
\* and its working directory
NewProc ==
  [pc |-> "idle", desired |-> EmptyMap, listing |-> <<>>, pending |-> {},
   cur |-> <<>>, wd |-> LaunchDir, originalDir |-> LaunchDir]

\* the checkout and the two invocations before either has run a step; f is
\* the content of the directory of the stable channel and config what
\* packages_config.yaml holds once it is written
World(config, exists, f) ==
  [tree |-> [x \in ChannelDirs \cup ParentDirs |->
               IF x = RepoArchDir(FALSE) THEN f
               ELSE IF x \in ChannelDirs THEN OtherFiles ELSE EmptyMap],
   dbs |-> [x \in ChannelDirs |-> StaleDb],
   api |-> [c \in Channels |-> StaleJson(c)],
   configExists |-> exists,
   configEmpty |-> FALSE,
   config |-> config,
   proc |-> [t \in BOOLEAN |-> NewProc]]

\* readPackagesConfig and the fetches of syncPackages, in the steps of
\* StatConfig, CreateConfig and Start
StepConfig(g, t) ==
  LET p == g.proc[t] IN
  CASE p.pc = "idle" /\ ~g.configExists ->
         {[g EXCEPT !.proc[t].pc = "noconfig"]}
    [] p.pc = "idle" /\ g.configExists ->
         {[g EXCEPT !.proc[t].pc = "orphans",
                    !.proc[t].desired =
                       DesiredOf(IF g.configEmpty THEN EmptyConfig
                                 ELSE g.config, t)]}
    [] p.pc = "noconfig" ->
         {[g EXCEPT !.configExists = TRUE, !.configEmpty = TRUE,
                    !.proc[t].pc = "creating"]}
    [] p.pc = "creating" ->
         {[g EXCEPT !.configEmpty = FALSE,
                    !.proc[t].pc = "orphans",
                    !.proc[t].desired = DesiredOf(TemplateConfig, t)]}
    [] OTHER -> {}

\* removeOrphanedPackages, in the steps of ListDir, OrphanStep and OrphansDone
StepOrphans(g, t) ==
  LET p == g.proc[t]
      d == RepoArchDir(t)
  IN CASE p.pc = "orphans" ->
            {[g EXCEPT !.proc[t].listing = ReadDir(DOMAIN g.tree[d]),
                       !.proc[t].pc = "removing"]}
       [] p.pc = "removing" /\ Len(p.listing) = 0 ->
            {[g EXCEPT !.proc[t].pc = "download",
                       !.proc[t].pending = DOMAIN p.desired]}
       [] p.pc = "removing" /\ Len(p.listing) > 0 ->
            {[g EXCEPT !.tree[d] = IF IsOrphan(Head(p.listing), p.desired)
                                   THEN Remove(@, Head(p.listing)) ELSE @,
                       !.proc[t].listing = Tail(p.listing)]}
       [] OTHER -> {}

\* downloadNewPackages and downloadFile, in the steps of DownloadSkip,
\* DownloadRefused, DownloadCreate and DownloadCopy
StepDownload(g, t) ==
  LET p == g.proc[t]
      d == RepoArchDir(t)
      at(k) == LocalPath(d, k)
  IN CASE p.pc = "download" ->
            {IF ~Missing(at(k).name, g.tree[at(k).dir])
             THEN [g EXCEPT !.proc[t].pending = @ \ {k}]
             ELSE IF HttpOutcome(p.desired[k].URL) \in {"status", "geterr"}
             THEN [g EXCEPT !.proc[t].pending = @ \ {k},
                            !.tree[at(k).dir] = Remove(@, at(k).name)]
             ELSE [g EXCEPT !.proc[t].pending = @ \ {k},
                            !.proc[t].cur = k,
                            !.proc[t].pc = "streaming",
                            !.tree[at(k).dir] =
                               Put(@, at(k).name, Partial(p.desired[k].URL))]
               : k \in p.pending}
       [] p.pc = "streaming" ->
            {[g EXCEPT !.proc[t].cur = <<>>,
                       !.proc[t].pc = "download",
                       !.tree[at(p.cur).dir] =
                          IF HttpOutcome(p.desired[p.cur].URL) = "ok"
                          THEN Put(@, at(p.cur).name, Full(p.desired[p.cur].URL))
                          ELSE Cleanup(@, at(p.cur).name)]}
       [] OTHER -> {}

\* updateRepoDatabase, in the steps of DbRemoveOld and DbBuild: the relative
\* names of the builder are resolved in the working directory of the process
StepDatabase(g, t) ==
  LET p == g.proc[t]
      d == RepoArchDir(t)
  IN CASE p.pc = "download" /\ p.pending = {} ->
            {[g EXCEPT !.proc[t].originalDir = p.wd,
                       !.proc[t].wd = d,
                       !.dbs[d] = RemoveOldDb(@),
                       !.proc[t].pc = "dbbuild"]}
       [] p.pc = "dbbuild" ->
            {IF HasPackages(g.tree[p.wd]) /\ ~RepoAddOk(g.tree[p.wd])
             THEN [g EXCEPT !.proc[t].wd = DeferredChdir(p.originalDir, p.wd),
                            !.proc[t].pc = "failed"]
             ELSE [g EXCEPT !.proc[t].wd = DeferredChdir(p.originalDir, p.wd),
                            !.proc[t].pc = "json",
                            !.dbs[p.wd] =
                               IF HasPackages(g.tree[p.wd])
                               THEN RefreshSymlinks(RepoAdd(@, g.tree[p.wd]), {})
                               ELSE RefreshSymlinks(WritePlaceholders(@), {})]}
       [] OTHER -> {}

\* generatePackagesJSON, in the step of GenerateJSON
StepJSON(g, t) ==
  LET p == g.proc[t]
      d == RepoArchDir(t)
  IN IF p.pc = "json"
     THEN {[g EXCEPT !.proc[t].pc = "done",
                     !.api[TargetRepo(t)] =
                        MarshalIndent(PackageList(ReadDir(DOMAIN g.tree[d]),
                                                  g.tree[d], TargetRepo(t), {}))]}
     ELSE {}

\* the states one step of the invocation for channel t leads to
Steps(g, t) ==
  StepConfig(g, t) \cup StepOrphans(g, t) \cup StepDownload(g, t)
    \cup StepDatabase(g, t) \cup StepJSON(g, t)

\* the states the invocations in who reach from the states in frontier
RECURSIVE Closure(_, _, _)
Closure(seen, frontier, who) ==
  IF frontier = {} THEN seen
  ELSE LET next == UNION {Steps(g, t) : g \in frontier, t \in who}
       IN Closure(seen \cup frontier, next \ (seen \cup frontier), who)

\* the invocation for channel t has returned
Returned(g, t) == g.proc[t].pc \in {"done", "failed"}

\* the states in which the invocation for channel t, run on its own from g,
\* has returned
Alone(g, t) == {h \in Closure({}, {g}, {t}) : Returned(h, t)}

\* the states that running the two invocations one after the other leaves,
\* in either order
Serial(g) ==
  UNION {UNION {Alone(h, ~t) : h \in Alone(g, t)} : t \in BOOLEAN}

\* the checkout and the results of the two invocations
Outcome(g) ==
  [tree |-> g.tree, dbs |-> g.dbs, api |-> g.api,
   result |-> [t \in BOOLEAN |-> g.proc[t].pc]]

\* a step of the invocation for channel t changes the directory, the
\* database or the JSON file of the other channel, or a directory above
Touches(g, t, h) ==
  \/ h.tree[RepoArchDir(~t)] # g.tree[RepoArchDir(~t)]
  \/ h.dbs[RepoArchDir(~t)] # g.dbs[RepoArchDir(~t)]
  \/ h.api[TargetRepo(~t)] # g.api[TargetRepo(~t)]
  \/ \E d \in ParentDirs : h.tree[d] # g.tree[d]

\* there is an interleaving from g in which a step acts on the other
\* channel, or which ends in a state no serial run ends in
Unsafe(g) ==
  LET reach == Closure({}, {g}, BOOLEAN)
      serial == {Outcome(s) : s \in Serial(g)}
  IN \/ \E h \in reach : \E t \in BOOLEAN :
          \E n \in Steps(h, t) : Touches(h, t, n)
     \/ \E h \in reach :
          /\ Returned(h, TRUE)
          /\ Returned(h, FALSE)
          /\ Outcome(h) \notin serial

\* the package directory of the other channel
OtherDir == RepoArchDir(~testingMode)

\* a step of an invocation leaves the directory, the database and the JSON
\* file of the other channel, and the directories above, as they are
LeavesOtherAlone ==
  testingMode' = testingMode =>
    /\ tree'[OtherDir] = tree[OtherDir]
    /\ dbs'[OtherDir] = dbs[OtherDir]
    /\ api'[TargetRepo(~testingMode)] = api[TargetRepo(~testingMode)]
    /\ \A d \in ParentDirs : tree'[d] = tree[d]

\* both invocations have returned and no local fault was injected
BothReturned ==
  /\ other.alive
  /\ Finished
  /\ other.pc \in {"done", "failed"}
  /\ faults = 0
  /\ other.faults = 0

\* the checkout the two invocations of this behaviour were started in
StartedIn ==
  World(other.config, other.config # TemplateConfig,
        IF testingMode THEN other.hist.init.files ELSE hist.init.files)

\* the checkout and the results of the two invocations, as they are now
PairOutcome ==
  [tree |-> tree, dbs |-> dbs, api |-> api,
   result |-> [t \in BOOLEAN |-> IF t = testingMode THEN pc ELSE other.pc]]

\* the checkout is as running the two invocations one after the other, in
\* one order or the other, leaves it
AsRunSerially == PairOutcome \in {Outcome(s) : s \in Serial(StartedIn)}

\* neither invocation has run a step
NeitherStarted == other.alive /\ pc = "idle" /\ other.pc = "idle"

C26_WitnessConfigRace ==
  /\ BothReturned
  /\ other.config = TemplateConfig
  /\ hist.noConfig
  /\ ~other.hist.noConfig
  /\ other.projects = <<>>
  /\ hist.deleted # {}

====
